---- MODULE Spec2Model ----
(***************************************************************************)
(* The hash-chained audit ledger of src/server/smart_ledger.py ("the       *)
(* Custodian"): one SmartLedger store, its backing file, its index file,   *)
(* its authorization-attempt trail and the shared deletion-audit trail,    *)
(* driven by callers that run record_action, get_stats and                 *)
(* authorized_ledger_deletion.  Every method is split at the statements    *)
(* where another caller can observe or change the store.                   *)
(***************************************************************************)
EXTENDS Integers, Sequences, FiniteSets, TLC

(* ------------------------------ bounds --------------------------------- *)

\* a run makes at most this many calls (record_action, get_stats, deletion).
MaxCalls == 2
\* the file system fails at most this many operations in one run.
MaxFaults == 1
\* the wall clock stops advancing here.
MaxClock == 1

(* ----------------------------- constants ------------------------------- *)

GENESIS == "0"
NoneVal == "<None>"
Threads == {"t1", "t2"}
critical_ledgers == {"production", "audit", "compliance", "vault", "nodes"}
TailLen == 10

\* the order in which json.dumps(..., sort_keys=True) emits the metadata keys
KeyOrder == <<"k1", "version">>

(* ------------------------------ helpers -------------------------------- *)

Last(s) == s[Len(s)]

\* Python truthiness of an Optional[str]
Falsy(s) == s = NoneVal \/ s = ""

\* str.startswith
StartsWith(s, p) == Len(s) >= Len(p) /\ SubSeq(s, 1, Len(p)) = p

\* datetime.isoformat(): fixed width, so the text orders as the instant does
isoformat(ts) == ToString(ts)

\* `metadata or {}`: a metadata mapping is a sequence of [k, v] items in
\* insertion order; None and {} are both the empty sequence after line 41.
HasKey(m, k) == \E i \in 1..Len(m) : m[i].k = k
ValueOf(m, k) == m[CHOOSE i \in 1..Len(m) : m[i].k = k].v

RECURSIVE DumpItems(_, _, _)
DumpItems(m, j, first) ==
    IF j > Len(KeyOrder) THEN ""
    ELSE IF HasKey(m, KeyOrder[j])
         THEN (IF first THEN "" ELSE ", ")
              \o "\"" \o KeyOrder[j] \o "\": \"" \o ValueOf(m, KeyOrder[j]) \o "\""
              \o DumpItems(m, j + 1, FALSE)
         ELSE DumpItems(m, j + 1, first)

\* json.dumps(metadata, sort_keys=True)
json_dumps_sorted(m) == "{" \o DumpItems(m, 1, TRUE) \o "}"

\* hashlib.sha256(...).hexdigest(): a collision-free digest, so an injective
\* map of the hashed text; the brackets occur in no field, which keeps a
\* digest embedded in a later hash_data apart from the fields around it.
sha256_hexdigest(s) == "[" \o s \o "]"

(* ---------------------------- Entry Model ------------------------------ *)

\* SmartLedgerEntry.__init__: the timestamp is read from the clock here.
SmartLedgerEntry(a, ts) ==
    [ timestamp     |-> ts,
      action_type   |-> a.action_type,
      action        |-> a.action,
      target        |-> a.target,
      details       |-> a.details,
      user_id       |-> a.user_id,
      smart_id      |-> a.smart_id,
      metadata      |-> a.metadata,
      previous_hash |-> NoneVal,
      entry_hash    |-> NoneVal,
      entry_id      |-> NoneVal ]

\* the f-string of calculate_hash
hash_data(e, previous_hash) ==
    isoformat(e.timestamp) \o ":" \o e.action_type \o ":" \o e.action \o ":"
    \o e.target \o ":" \o e.details \o ":" \o e.user_id \o ":" \o e.smart_id
    \o ":" \o previous_hash \o ":" \o json_dumps_sorted(e.metadata)

\* SmartLedgerEntry.calculate_hash; ms is int(time.time() * 1000)
calculate_hash(e, previous_hash, ms) ==
    LET h == sha256_hexdigest(hash_data(e, previous_hash))
    IN [e EXCEPT !.previous_hash = previous_hash,
                 !.entry_hash = h,
                 !.entry_id = "led_" \o ToString(ms) \o "_" \o SubSeq(h, 1, 8)]

\* SmartLedgerEntry.to_dict: the stored dict has the entry's eleven fields
to_dict(e) == e

(* ---------------------------- validate_chain --------------------------- *)

RECURSIVE Violations(_, _, _)
Violations(es, i, expected_hash) ==
    IF i > Len(es) THEN <<>>
    ELSE LET entry == es[i]
             temp_entry == SmartLedgerEntry(entry, entry.timestamp)
             calculated_hash == calculate_hash(temp_entry, expected_hash, 0).entry_hash
             mismatch ==
                 IF calculated_hash # entry.entry_hash
                 THEN << [ index |-> i - 1, entry_id |-> entry.entry_id,
                           chain_break |-> FALSE,
                           expected |-> calculated_hash,
                           actual |-> entry.entry_hash ] >>
                 ELSE <<>>
             break ==
                 IF entry.previous_hash # expected_hash
                 THEN << [ index |-> i - 1, entry_id |-> entry.entry_id,
                           chain_break |-> TRUE,
                           expected |-> expected_hash,
                           actual |-> entry.previous_hash ] >>
                 ELSE <<>>
         IN mismatch \o break \o Violations(es, i + 1, entry.entry_hash)

\* SmartLedger.validate_chain
validate_chain(es) ==
    IF es = <<>>
    THEN [ valid |-> TRUE, total_entries |-> 0,
           message |-> "Empty ledger is valid" ]
    ELSE LET invalid_entries == Violations(es, 1, GENESIS)
         IN [ valid |-> Len(invalid_entries) = 0,
              total_entries |-> Len(es),
              invalid_entries |-> invalid_entries,
              message |-> IF Len(invalid_entries) = 0 THEN "Chain is valid"
                          ELSE "Found " \o ToString(Len(invalid_entries))
                               \o " integrity violations" ]

(* -------------------------------- Index -------------------------------- *)

NoCounts == [k \in {} |-> 0]

\* Increment with the bug of starting the count again at every entry
IncrementForgets(d, key) ==
    [k \in DOMAIN d \cup {key} |-> IF k = key THEN 1 ELSE d[k]]

\* `if key not in d: d[key] = 0` followed by `d[key] += 1`
Increment(d, key) ==
    [k \in DOMAIN d \cup {key} |->
        IF k = key THEN (IF key \in DOMAIN d THEN d[key] + 1 ELSE 1) ELSE d[k]]

\* the loop of _update_index over self.entries, lines 204-222
RECURSIVE BuildIndex(_, _, _)
BuildIndex(index, es, i) ==
    IF i > Len(es) THEN index
    ELSE LET entry == es[i]
             smart_id == entry.smart_id
         IN BuildIndex(
              [index EXCEPT
                 !.entry_types = Increment(@, entry.action_type),
                 !.users = Increment(@, entry.user_id),
                 !.smart_ids = IF smart_id # "" THEN Increment(@, smart_id) ELSE @],
              es, i + 1)

\* the index dict that _update_index dumps to the index file
\* (its last_updated stamp, which nothing reads, is left out)
IndexOf(es, lh) ==
    BuildIndex([ total_entries |-> Len(es),
                 last_hash |-> lh,
                 entry_types |-> NoCounts,
                 users |-> NoCounts,
                 smart_ids |-> NoCounts ], es, 1)

\* the index file: absent, readable JSON, or unreadable (a write that failed
\* after open(..., 'w') truncated the file)
AbsentIndex == [state |-> "absent", data |-> IndexOf(<<>>, GENESIS)]
CorruptIndex == [state |-> "corrupt", data |-> IndexOf(<<>>, GENESIS)]
ReadableIndex(d) == [state |-> "ok", data |-> d]

\* SmartLedger.get_stats
get_stats(es, lh, idx) ==
    IF es = <<>>
    THEN [ total_entries |-> 0, first_entry |-> NoneVal, last_entry |-> NoneVal,
           action_types |-> NoCounts, users |-> NoCounts, smart_ids |-> NoCounts ]
    ELSE LET stats == [ total_entries |-> Len(es),
                        first_entry |-> isoformat(es[1].timestamp),
                        last_entry |-> isoformat(Last(es).timestamp),
                        last_hash |-> lh ]
         IN CASE idx.state = "ok" ->
                   stats @@ [ action_types |-> idx.data.entry_types,
                              users |-> idx.data.users,
                              smart_ids |-> idx.data.smart_ids ]
              [] idx.state = "corrupt" ->
                   stats @@ [ action_types |-> NoCounts, users |-> NoCounts,
                              smart_ids |-> NoCounts ]
              [] OTHER -> stats

(* ---------------------------- backing file ----------------------------- *)

\* The backing file is the sequence of writes made to it.  A write is one
\* serialized entry; a complete write ends with its newline, a torn write
\* (a write that failed part-way) does not, and the bytes of the next write
\* then continue the torn line.
AbsentFile == [exists |-> FALSE, chunks |-> <<>>]
CompleteWrite(e) == [e |-> e, complete |-> TRUE]
TornWrite(e) == [e |-> e, complete |-> FALSE]

\* open(ledger_file, 'a'); f.write(json.dumps(entry_dict) + '\n')
AppendLine(f, e) == [exists |-> TRUE, chunks |-> Append(f.chunks, CompleteWrite(e))]
AppendTorn(f, e) == [exists |-> TRUE, chunks |-> Append(f.chunks, TornWrite(e))]

\* a write makes a line json.loads accepts iff it is complete and does not
\* continue a torn line
ReadableLine(f, i) ==
    f.chunks[i].complete /\ (i = 1 \/ f.chunks[i - 1].complete)
FileReadable(f) == \A i \in 1..Len(f.chunks) : ReadableLine(f, i)

\* json.loads(json.dumps(entry_dict)): every field is a string or a mapping
\* of strings, which JSON returns unchanged
json_roundtrip(e) == e

RECURSIVE LinesFrom(_, _)
LinesFrom(f, i) ==
    IF i > Len(f.chunks) THEN <<>>
    ELSE <<json_roundtrip(f.chunks[i].e)>> \o LinesFrom(f, i + 1)

\* SmartLedger._load_ledger: what the constructor makes of the data directory.
\* ts is int(time.time()), the name of the quarantine copy.
load_ledger(f, quar, ts) ==
    IF ~f.exists
    THEN [entries |-> <<>>, last_hash |-> GENESIS, file |-> f, quarantine |-> quar]
    ELSE IF FileReadable(f)
    THEN LET es == LinesFrom(f, 1)
         IN [ entries |-> es,
              last_hash |-> IF es # <<>> THEN Last(es).entry_hash ELSE GENESIS,
              file |-> f, quarantine |-> quar ]
    ELSE [ entries |-> <<>>, last_hash |-> GENESIS, file |-> AbsentFile,
           quarantine |-> [n \in DOMAIN quar \cup {ts} |-> IF n = ts THEN f ELSE quar[n]] ]

(* ------------------------------- state --------------------------------- *)

VARIABLES
    ledger_name,          \* self.ledger_name
    ledger_instances,     \* _ledger_instances: the store registered per name
    now,                  \* the wall clock, in seconds
    calls,                \* how many calls have been made
    faults,               \* how many operations the file system has failed
    entries,              \* self.entries
    last_hash,            \* self.last_hash
    ledger_file,          \* <name>_ledger.jsonl
    index_file,           \* <name>_index.json
    auth_file,            \* <name>_auth.json, the authorization-attempt trail
    deletion_audit_file,  \* deletion_audit.jsonl, the deletion-audit trail
    final_backups,        \* FINAL_BACKUP_<name>_<seconds>.jsonl, by seconds
    quarantine,           \* smart_ledger_backup_<seconds>.jsonl, by seconds
    pc,                   \* where each caller stands in the method it runs
    local,                \* each caller's arguments and local variables
    ret,                  \* what each caller's finished call returned or raised
    pre                   \* the store and its files when each caller's call began

world == <<ledger_name, ledger_instances, now, calls>>
store == <<entries, last_hash>>
files == <<ledger_file, index_file, auth_file, deletion_audit_file, final_backups, quarantine>>
callers == <<pc, local, ret, pre>>
vars == <<world, faults, store, files, callers>>

NoFiles == [n \in {} |-> <<>>]
NoLocal == [op |-> "none"]
NoRet == [kind |-> "none"]
NoPre == [taken |-> FALSE]

Snapshot ==
    [ taken |-> TRUE, entries |-> entries, last_hash |-> last_hash,
      ledger_file |-> ledger_file, index_file |-> index_file,
      auth_file |-> auth_file, deletion_audit_file |-> deletion_audit_file,
      final_backups |-> final_backups, quarantine |-> quarantine,
      ledger_instances |-> ledger_instances ]

Returned(v) == [kind |-> "return", value |-> v]
Raised(e) == [kind |-> "raise", error |-> e]

(* ------------------------------- inputs -------------------------------- *)

\* the names a store is constructed with
LedgerNames == {"main", "nodes"}

\* the arguments of the record_action calls
RecordArgs ==
    { [ action_type |-> "system", action |-> "start", target |-> "SMART-Admin",
        details |-> "System startup", user_id |-> "admin", smart_id |-> "",
        metadata |-> << [k |-> "version", v |-> "2.0"] >> ],
      [ action_type |-> "module", action |-> "scan", target |-> "SMART-Compliance",
        details |-> "Module discovery scan", user_id |-> "admin",
        smart_id |-> "MOD-12345", metadata |-> <<>> ] }

\* the credentials of the deletion calls
DeleteArgs ==
    { [smart_id |-> "STF-001", reason |-> "test", supervisor_id |-> "SUP-001"],
      [smart_id |-> "guest-1", reason |-> "test", supervisor_id |-> NoneVal] }

\* the credentials of the authorize_ledger_deletion calls
AuthArgs ==
    { [smart_id |-> "",        reason |-> "test", supervisor_id |-> "SUP-001"],
      [smart_id |-> "guest-1", reason |-> "test", supervisor_id |-> NoneVal],
      [smart_id |-> "guest-1", reason |-> "test", supervisor_id |-> "SUP-001"],
      [smart_id |-> "STF-001", reason |-> "test", supervisor_id |-> "SUP-001"],
      [smart_id |-> "STF-001", reason |-> "test", supervisor_id |-> NoneVal],
      [smart_id |-> "ADM-7",   reason |-> "test", supervisor_id |-> "ADM-7"],
      [smart_id |-> "DEV-2",   reason |-> "test", supervisor_id |-> "STF-001"],
      [smart_id |-> "DEV-2",   reason |-> "test", supervisor_id |-> ""] }

\* an entry written by an earlier run of the program
EarlierEntry ==
    to_dict(calculate_hash(
        SmartLedgerEntry(CHOOSE a \in RecordArgs : a.smart_id = "", 0), GENESIS, 0))

\* what the data directory holds when the store is constructed: nothing, the
\* file and index of an earlier run, or a file whose last write was torn by a
\* crash
InitialDisks ==
    { [file |-> AbsentFile, index |-> AbsentIndex],
      [file |-> AppendLine(AbsentFile, EarlierEntry),
       index |-> ReadableIndex(IndexOf(<<EarlierEntry>>, EarlierEntry.entry_hash))],
      [file |-> AppendTorn(AppendLine(AbsentFile, EarlierEntry), EarlierEntry),
       index |-> ReadableIndex(IndexOf(<<EarlierEntry>>, EarlierEntry.entry_hash))] }

\* the store constructed when the program starts
FirstStore == "store-0"

\* _ledger_instances with the store registered under the name
Registered(name, id) == [n \in {name} |-> id]

\* SmartLedger.__init__
Init ==
    /\ ledger_name \in LedgerNames
    /\ ledger_instances = Registered(ledger_name, FirstStore)
    /\ now = 0
    /\ calls = 0
    /\ faults = 0
    /\ \E disk \in InitialDisks :
         LET loaded == load_ledger(disk.file, NoFiles, 0)
         IN /\ entries = loaded.entries
            /\ last_hash = loaded.last_hash
            /\ ledger_file = loaded.file
            /\ quarantine = loaded.quarantine
            /\ index_file = disk.index
    /\ auth_file = <<>>
    /\ deletion_audit_file = <<>>
    /\ final_backups = NoFiles
    /\ pc = [t \in Threads |-> "idle"]
    /\ local = [t \in Threads |-> NoLocal]
    /\ ret = [t \in Threads |-> NoRet]
    /\ pre = [t \in Threads |-> NoPre]

\* an operation of the file system succeeds, or fails within the budget
Succeeds == faults' = faults
Fails == faults < MaxFaults /\ faults' = faults + 1

\* a caller begins a call: the state it finds is kept for comparison
Begin(t, l) ==
    /\ pc[t] = "idle"
    /\ calls < MaxCalls
    /\ calls' = calls + 1
    /\ local' = [local EXCEPT ![t] = l]
    /\ pre' = [pre EXCEPT ![t] = Snapshot]
    /\ UNCHANGED <<ledger_name, ledger_instances, now>>

\* The clock advances.  Time matters only where it is read: before a call
\* begins (lines 34, 370), at calculate_hash (line 54), when the deletion
\* record is built (line 409) and when the backup is named (line 429).
Tick(t) ==
    /\ \/ pc[t] = "idle" /\ calls < MaxCalls
       \/ pc[t] \in {"ra_hash", "del_record", "del_backup"}
    /\ now < MaxClock
    /\ now' = now + 1
    /\ UNCHANGED <<ledger_name, ledger_instances, calls, faults, store, files, callers>>

\* a finished call's result is consumed; the caller may call again
Return(t) ==
    /\ pc[t] = "done"
    /\ pc' = [pc EXCEPT ![t] = "idle"]
    /\ local' = [local EXCEPT ![t] = NoLocal]
    /\ ret' = [ret EXCEPT ![t] = NoRet]
    /\ pre' = [pre EXCEPT ![t] = NoPre]
    /\ UNCHANGED <<world, faults, store, files>>

(* ---------------------------- record_action ---------------------------- *)

\* lines 150-159: the entry is constructed and stamped
RecordCreate(t, a) ==
    /\ Begin(t, [op |-> "record_action", entry |-> SmartLedgerEntry(a, now)])
    /\ pc' = [pc EXCEPT ![t] = "ra_hash"]
    /\ UNCHANGED <<faults, store, files, ret>>

\* RecordHash with the bug of chaining every entry to the genesis sentinel
RecordHashUnchained(t) ==
    /\ pc[t] = "ra_hash"
    /\ pc' = [pc EXCEPT ![t] = "ra_append"]
    /\ local' = [local EXCEPT ![t].entry =
                    to_dict(calculate_hash(@, GENESIS, now * 1000))]
    /\ UNCHANGED <<world, faults, store, files, ret, pre>>

\* lines 161-165: chained to the last hash the store holds now
RecordHash(t) ==
    /\ pc[t] = "ra_hash"
    /\ pc' = [pc EXCEPT ![t] = "ra_append"]
    /\ local' = [local EXCEPT ![t].entry =
                    to_dict(calculate_hash(@, last_hash, now * 1000))]
    /\ UNCHANGED <<world, faults, store, files, ret, pre>>

\* RecordAppend with the bug of putting the new entry first
RecordAppendFront(t) ==
    /\ pc[t] = "ra_append"
    /\ entries' = <<local[t].entry>> \o entries
    /\ pc' = [pc EXCEPT ![t] = "ra_write"]
    /\ UNCHANGED <<world, faults, last_hash, files, local, ret, pre>>

\* lines 167-168
RecordAppend(t) ==
    /\ pc[t] = "ra_append"
    /\ entries' = Append(entries, local[t].entry)
    /\ pc' = [pc EXCEPT ![t] = "ra_write"]
    /\ UNCHANGED <<world, faults, last_hash, files, local, ret, pre>>

\* lines 170-173: the write succeeds, or fails leaving nothing or a torn line
RecordWrite(t) ==
    /\ pc[t] = "ra_write"
    /\ \/ /\ Succeeds
          /\ ledger_file' = AppendLine(ledger_file, local[t].entry)
          /\ pc' = [pc EXCEPT ![t] = "ra_sethash"]
       \/ /\ Fails
          /\ ledger_file' = ledger_file
          /\ pc' = [pc EXCEPT ![t] = "ra_except"]
       \/ /\ Fails
          /\ ledger_file' = AppendTorn(ledger_file, local[t].entry)
          /\ pc' = [pc EXCEPT ![t] = "ra_except"]
    /\ UNCHANGED <<world, store, index_file, auth_file, deletion_audit_file,
                   final_backups, quarantine, local, ret, pre>>

\* RecordSetHash with the bug of leaving self.last_hash as it was
RecordSetHashForgotten(t) ==
    /\ pc[t] = "ra_sethash"
    /\ pc' = [pc EXCEPT ![t] = "ra_index"]
    /\ UNCHANGED <<world, faults, store, files, local, ret, pre>>

\* lines 175-176
RecordSetHash(t) ==
    /\ pc[t] = "ra_sethash"
    /\ last_hash' = local[t].entry.entry_hash
    /\ pc' = [pc EXCEPT ![t] = "ra_index"]
    /\ UNCHANGED <<world, faults, entries, files, local, ret, pre>>

\* lines 178-183 with _update_index, lines 191-228: the index file is
\* rewritten, or the write fails (before or after truncating the file) and
\* the failure is swallowed
RecordUpdateIndex(t) ==
    /\ pc[t] = "ra_index"
    /\ \/ Succeeds /\ index_file' = ReadableIndex(IndexOf(entries, last_hash))
       \/ Fails /\ index_file' = index_file
       \/ Fails /\ index_file' = CorruptIndex
    /\ pc' = [pc EXCEPT ![t] = "done"]
    /\ ret' = [ret EXCEPT ![t] = Returned(local[t].entry.entry_id)]
    /\ UNCHANGED <<world, store, ledger_file, auth_file, deletion_audit_file,
                   final_backups, quarantine, local, pre>>

\* RecordExcept with the bug of leaving the attempted entry in memory
RecordExceptKeeps(t) ==
    /\ pc[t] = "ra_except"
    /\ ret' = [ret EXCEPT ![t] = Raised("OSError")]
    /\ pc' = [pc EXCEPT ![t] = "done"]
    /\ UNCHANGED <<world, faults, store, files, local, pre>>

\* lines 185-189: list.pop() removes the last element, whichever it is, and
\* raises IndexError on an empty list
RecordExcept(t) ==
    /\ pc[t] = "ra_except"
    /\ IF entries # <<>>
       THEN /\ entries' = SubSeq(entries, 1, Len(entries) - 1)
            /\ ret' = [ret EXCEPT ![t] = Raised("OSError")]
       ELSE /\ entries' = entries
            /\ ret' = [ret EXCEPT ![t] = Raised("IndexError")]
    /\ pc' = [pc EXCEPT ![t] = "done"]
    /\ UNCHANGED <<world, faults, last_hash, files, local, pre>>

(* ------------------------------ get_stats ------------------------------ *)

\* SmartLedger.get_stats, lines 325-363, called by a reader
GetStats(t) ==
    /\ Begin(t, [op |-> "get_stats"])
    /\ pc' = [pc EXCEPT ![t] = "done"]
    /\ ret' = [ret EXCEPT ![t] = Returned(get_stats(entries, last_hash, index_file))]
    /\ UNCHANGED <<faults, store, files>>

(* -------------------------- Deletion Governance ------------------------ *)

\* the record authorize_ledger_deletion appends to the attempt trail
auth_attempt(name, smart_id, reason, supervisor_id, ts) ==
    [ timestamp |-> isoformat(ts), smart_id |-> smart_id, reason |-> reason,
      supervisor_id |-> supervisor_id, ledger_name |-> name,
      action |-> "deletion_authorization_request" ]

\* the decision of authorize_ledger_deletion, lines 385-398
authorize_ledger_deletion(name, smart_id, supervisor_id) ==
    IF Falsy(smart_id)
       \/ ~(StartsWith(smart_id, "STF-") \/ StartsWith(smart_id, "ADM-")
            \/ StartsWith(smart_id, "DEV-"))
    THEN FALSE
    ELSE IF name \in critical_ledgers
            /\ (Falsy(supervisor_id)
                \/ ~(StartsWith(supervisor_id, "SUP-") \/ StartsWith(supervisor_id, "ADM-")))
    THEN FALSE
    ELSE TRUE

\* final_entries with the bug of putting the whole chain in the record
final_entries_whole(es) == es

\* self.entries[-10:] if len(self.entries) >= 10 else self.entries
final_entries(es) ==
    IF Len(es) >= TailLen THEN SubSeq(es, Len(es) - TailLen + 1, Len(es)) ELSE es

\* AuthorizeDeletion with the bug of waiving the supervisor on critical ledgers
AuthorizeDeletionNoSupervisor(t, d) ==
    /\ Begin(t, [ op |-> "authorize", smart_id |-> d.smart_id,
                  reason |-> d.reason, supervisor_id |-> d.supervisor_id ])
    /\ \/ /\ Succeeds
          /\ auth_file' = Append(auth_file,
                auth_attempt(ledger_name, d.smart_id, d.reason, d.supervisor_id, now))
       \/ Fails /\ auth_file' = auth_file
    /\ pc' = [pc EXCEPT ![t] = "done"]
    /\ ret' = [ret EXCEPT ![t] =
          Returned(authorize_ledger_deletion("main", d.smart_id, d.supervisor_id))]
    /\ UNCHANGED <<store, ledger_file, index_file, deletion_audit_file,
                   final_backups, quarantine>>

\* AuthorizeDeletion with the bug of denying a requester who asked before
AuthorizeDeletionOnce(t, d) ==
    /\ Begin(t, [ op |-> "authorize", smart_id |-> d.smart_id,
                  reason |-> d.reason, supervisor_id |-> d.supervisor_id ])
    /\ \/ /\ Succeeds
          /\ auth_file' = Append(auth_file,
                auth_attempt(ledger_name, d.smart_id, d.reason, d.supervisor_id, now))
       \/ Fails /\ auth_file' = auth_file
    /\ pc' = [pc EXCEPT ![t] = "done"]
    /\ ret' = [ret EXCEPT ![t] =
          Returned(/\ \A i \in 1..Len(auth_file) : auth_file[i].smart_id # d.smart_id
                   /\ authorize_ledger_deletion(ledger_name, d.smart_id,
                                                d.supervisor_id))]
    /\ UNCHANGED <<store, ledger_file, index_file, deletion_audit_file,
                   final_backups, quarantine>>

\* SmartLedger.authorize_ledger_deletion called on its own, lines 365-398: the
\* attempt is logged (a failed write is swallowed, lines 379-383), then the
\* decision is returned
AuthorizeDeletion(t, d) ==
    /\ Begin(t, [ op |-> "authorize", smart_id |-> d.smart_id,
                  reason |-> d.reason, supervisor_id |-> d.supervisor_id ])
    /\ \/ /\ Succeeds
          /\ auth_file' = Append(auth_file,
                auth_attempt(ledger_name, d.smart_id, d.reason, d.supervisor_id, now))
       \/ Fails /\ auth_file' = auth_file
    /\ pc' = [pc EXCEPT ![t] = "done"]
    /\ ret' = [ret EXCEPT ![t] =
          Returned(authorize_ledger_deletion(ledger_name, d.smart_id,
                                             d.supervisor_id))]
    /\ UNCHANGED <<store, ledger_file, index_file, deletion_audit_file,
                   final_backups, quarantine>>

\* lines 400-405: the attempt is logged (a failed write is swallowed), then
\* the decision is taken
DeleteAuthorize(t, d) ==
    /\ Begin(t, [ op |-> "delete", smart_id |-> d.smart_id, reason |-> d.reason,
                  supervisor_id |-> d.supervisor_id ])
    /\ \/ /\ Succeeds
          /\ auth_file' = Append(auth_file,
                auth_attempt(ledger_name, d.smart_id, d.reason, d.supervisor_id, now))
       \/ Fails /\ auth_file' = auth_file
    /\ IF authorize_ledger_deletion(ledger_name, d.smart_id, d.supervisor_id)
       THEN /\ pc' = [pc EXCEPT ![t] = "del_record"]
            /\ ret' = ret
       ELSE /\ pc' = [pc EXCEPT ![t] = "done"]
            /\ ret' = [ret EXCEPT ![t] = Raised("PermissionError")]
    /\ UNCHANGED <<store, ledger_file, index_file, deletion_audit_file,
                   final_backups, quarantine>>

\* lines 407-417: the deletion record is built from the live chain
DeleteBuildRecord(t) ==
    /\ pc[t] = "del_record"
    /\ local' = [local EXCEPT ![t] = @ @@
          [ deletion_record |->
              [ deletion_timestamp |-> isoformat(now),
                authorized_by |-> local[t].smart_id,
                supervisor_by |-> local[t].supervisor_id,
                reason |-> local[t].reason,
                ledger_name |-> ledger_name,
                ledger_stats |-> get_stats(entries, last_hash, index_file),
                final_entries |-> final_entries(entries),
                hash_chain_validation |-> validate_chain(entries) ] ]]
    /\ pc' = [pc EXCEPT ![t] = "del_audit"]
    /\ UNCHANGED <<world, faults, store, files, ret, pre>>

\* DeleteAudit with the bug of opening the trail for writing, not appending
DeleteAuditOverwrites(t) ==
    /\ pc[t] = "del_audit"
    /\ \/ /\ Succeeds
          /\ deletion_audit_file' = <<local[t].deletion_record>>
          /\ pc' = [pc EXCEPT ![t] = "del_backup"]
          /\ ret' = ret
       \/ /\ Fails
          /\ deletion_audit_file' = deletion_audit_file
          /\ pc' = [pc EXCEPT ![t] = "done"]
          /\ ret' = [ret EXCEPT ![t] =
                        Raised("Cannot delete ledger without audit trail")]
    /\ UNCHANGED <<world, store, ledger_file, index_file, auth_file,
                   final_backups, quarantine, local, pre>>

\* DeleteAudit with the bug of carrying on when the audit write failed
DeleteAuditSwallowed(t) ==
    /\ pc[t] = "del_audit"
    /\ \/ /\ Succeeds
          /\ deletion_audit_file' =
                Append(deletion_audit_file, local[t].deletion_record)
       \/ /\ Fails
          /\ deletion_audit_file' = deletion_audit_file
    /\ pc' = [pc EXCEPT ![t] = "del_backup"]
    /\ UNCHANGED <<world, store, ledger_file, index_file, auth_file,
                   final_backups, quarantine, local, ret, pre>>

\* lines 419-426: the record is appended to the deletion-audit trail, or the
\* write fails and the deletion is given up
DeleteAudit(t) ==
    /\ pc[t] = "del_audit"
    /\ \/ /\ Succeeds
          /\ deletion_audit_file' =
                Append(deletion_audit_file, local[t].deletion_record)
          /\ pc' = [pc EXCEPT ![t] = "del_backup"]
          /\ ret' = ret
       \/ /\ Fails
          /\ deletion_audit_file' = deletion_audit_file
          /\ pc' = [pc EXCEPT ![t] = "done"]
          /\ ret' = [ret EXCEPT ![t] =
                        Raised("Cannot delete ledger without audit trail")]
    /\ UNCHANGED <<world, store, ledger_file, index_file, auth_file,
                   final_backups, quarantine, local, pre>>

\* lines 428-443: the best-effort read-only copy; shutil.copy2 raises when the
\* backing file is missing and may fail for any other reason; either way the
\* exception is swallowed
DeleteBackup(t) ==
    /\ pc[t] = "del_backup"
    /\ \/ /\ ledger_file.exists
          /\ Succeeds
          /\ final_backups' =
                [n \in DOMAIN final_backups \cup {now} |->
                    IF n = now THEN ledger_file.chunks ELSE final_backups[n]]
       \/ /\ ~ledger_file.exists
          /\ Succeeds
          /\ final_backups' = final_backups
       \/ /\ ledger_file.exists
          /\ Fails
          /\ final_backups' = final_backups
    /\ pc' = [pc EXCEPT ![t] = "del_unlink_ledger"]
    /\ UNCHANGED <<world, store, ledger_file, index_file, auth_file,
                   deletion_audit_file, quarantine, local, ret, pre>>

\* lines 446-448: the backing file is removed if it exists; unlink may raise
DeleteUnlinkLedger(t) ==
    /\ pc[t] = "del_unlink_ledger"
    /\ \/ /\ Succeeds
          /\ ledger_file' = AbsentFile
          /\ pc' = [pc EXCEPT ![t] = "del_unlink_index"]
          /\ ret' = ret
       \/ /\ ledger_file.exists
          /\ Fails
          /\ ledger_file' = ledger_file
          /\ pc' = [pc EXCEPT ![t] = "done"]
          /\ ret' = [ret EXCEPT ![t] = Raised("OSError")]
    /\ UNCHANGED <<world, store, index_file, auth_file, deletion_audit_file,
                   final_backups, quarantine, local, pre>>

\* lines 449-450: the index file is removed if it exists; unlink may raise
DeleteUnlinkIndex(t) ==
    /\ pc[t] = "del_unlink_index"
    /\ \/ /\ Succeeds
          /\ index_file' = AbsentIndex
          /\ pc' = [pc EXCEPT ![t] = "del_clear"]
          /\ ret' = ret
       \/ /\ index_file.state # "absent"
          /\ Fails
          /\ index_file' = index_file
          /\ pc' = [pc EXCEPT ![t] = "done"]
          /\ ret' = [ret EXCEPT ![t] = Raised("OSError")]
    /\ UNCHANGED <<world, store, ledger_file, auth_file, deletion_audit_file,
                   final_backups, quarantine, local, pre>>

\* lines 452-456: the in-memory chain is reset
DeleteClear(t) ==
    /\ pc[t] = "del_clear"
    /\ entries' = <<>>
    /\ last_hash' = GENESIS
    /\ pc' = [pc EXCEPT ![t] = "done"]
    /\ ret' = [ret EXCEPT ![t] = Returned(NoneVal)]
    /\ UNCHANGED <<world, faults, files, local, pre>>

(* --------------------------- specifications ---------------------------- *)

Step(t) ==
    \/ \E a \in RecordArgs : RecordCreate(t, a)
    \/ RecordHash(t)
    \/ RecordAppend(t)
    \/ RecordWrite(t)
    \/ RecordSetHash(t)
    \/ RecordUpdateIndex(t)
    \/ RecordExcept(t)
    \/ GetStats(t)
    \/ \E d \in DeleteArgs : DeleteAuthorize(t, d)
    \/ DeleteBuildRecord(t)
    \/ DeleteAudit(t)
    \/ DeleteBackup(t)
    \/ DeleteUnlinkLedger(t)
    \/ DeleteUnlinkIndex(t)
    \/ DeleteClear(t)
    \/ Return(t)

\* callers on any number of threads, interleaved at every statement
Next == \E t \in Threads : Tick(t) \/ Step(t)
Spec == Init /\ [][Next]_vars

\* one caller: every call runs to its end before the next begins
NextSeq == Tick("t1") \/ Step("t1")
SpecSeq == Init /\ [][NextSeq]_vars

\* callers that only ask for authorization
NextAuth ==
    \E t \in Threads :
        \/ \E d \in AuthArgs : AuthorizeDeletion(t, d)
        \/ Return(t)
SpecAuth == Init /\ [][NextAuth]_vars

(* ------------------- validation of a stored chain ---------------------- *)

\* the longest chain an earlier run left on disk
MaxChain == 3

\* the chain that successful record_action calls with the arguments as build,
\* lines 148-176 repeated: each entry is chained to the last hash
RECURSIVE RecordAll(_, _, _)
RecordAll(as, es, lh) ==
    IF as = <<>> THEN es
    ELSE LET ts == Len(es)
             entry_dict == to_dict(calculate_hash(
                               SmartLedgerEntry(Head(as), ts), lh, ts * 1000))
         IN RecordAll(Tail(as), Append(es, entry_dict), entry_dict.entry_hash)

RECURSIVE WriteAll(_, _)
WriteAll(f, es) ==
    IF es = <<>> THEN f ELSE WriteAll(AppendLine(f, Head(es)), Tail(es))

\* the backing files earlier runs left behind
StoredChains ==
    { RecordAll(as, <<>>, GENESIS) :
        as \in UNION { [1..n -> RecordArgs] : n \in 0..MaxChain } }

\* SmartLedger.__init__ on a data directory that holds one of those files
InitStored ==
    /\ ledger_name \in LedgerNames
    /\ ledger_instances = Registered(ledger_name, FirstStore)
    /\ now = 0
    /\ calls = 0
    /\ faults = 0
    /\ \E es \in StoredChains :
         LET f == IF es = <<>> THEN AbsentFile ELSE WriteAll(AbsentFile, es)
             loaded == load_ledger(f, NoFiles, 0)
         IN /\ entries = loaded.entries
            /\ last_hash = loaded.last_hash
            /\ ledger_file = loaded.file
            /\ quarantine = loaded.quarantine
            /\ index_file = IF es = <<>> THEN AbsentIndex
                            ELSE ReadableIndex(IndexOf(es, Last(es).entry_hash))
    /\ auth_file = <<>>
    /\ deletion_audit_file = <<>>
    /\ final_backups = NoFiles
    /\ pc = [t \in Threads |-> "idle"]
    /\ local = [t \in Threads |-> NoLocal]
    /\ ret = [t \in Threads |-> NoRet]
    /\ pre = [t \in Threads |-> NoPre]

\* the keys of a stored entry, lines 60-72
EntryFields ==
    { "entry_id", "timestamp", "action_type", "action", "target", "details",
      "user_id", "smart_id", "metadata", "previous_hash", "entry_hash" }

\* values an edited line may carry in place of old
OtherValues(f, old) ==
    ( IF f = "timestamp" THEN {old + 1}
      ELSE IF f = "metadata" THEN { << [k |-> "k1", v |-> "edited"] >> }
      ELSE IF f = "previous_hash" THEN {"edited", GENESIS}
      ELSE {"edited"} ) \ {old}

\* Somebody edits one field of line i of the backing file outside the
\* program; the store is constructed again and loads the file (lines 104-116).
\* The editor's slot "t2" keeps what was done and the chain as it was.
Tamper(i, f, v) ==
    /\ pc["t1"] = "idle" /\ pc["t2"] = "idle"
    /\ i \in 1..Len(ledger_file.chunks)
    /\ v \in OtherValues(f, ledger_file.chunks[i].e[f])
    /\ LET edited == [ledger_file EXCEPT !.chunks[i].e[f] = v]
           loaded == load_ledger(edited, quarantine, now)
       IN /\ ledger_file' = loaded.file
          /\ quarantine' = loaded.quarantine
          /\ entries' = loaded.entries
          /\ last_hash' = loaded.last_hash
    /\ pc' = [pc EXCEPT !["t2"] = "done"]
    /\ local' = [local EXCEPT !["t2"] = [op |-> "tamper", index |-> i, field |-> f]]
    /\ pre' = [pre EXCEPT !["t2"] = Snapshot]
    /\ UNCHANGED <<world, faults, index_file, auth_file, deletion_audit_file,
                   final_backups, ret>>

\* the sequence s without its element i
Without(s, i) == SubSeq(s, 1, i - 1) \o SubSeq(s, i + 1, Len(s))

\* Somebody removes line i of the backing file outside the program; the store
\* is constructed again and loads the file.
RemoveLine(i) ==
    /\ pc["t1"] = "idle" /\ pc["t2"] = "idle"
    /\ i \in 1..Len(ledger_file.chunks)
    /\ LET edited == [ledger_file EXCEPT !.chunks = Without(@, i)]
           loaded == load_ledger(edited, quarantine, now)
       IN /\ ledger_file' = loaded.file
          /\ quarantine' = loaded.quarantine
          /\ entries' = loaded.entries
          /\ last_hash' = loaded.last_hash
    /\ pc' = [pc EXCEPT !["t2"] = "done"]
    /\ local' = [local EXCEPT !["t2"] = [op |-> "remove", index |-> i]]
    /\ pre' = [pre EXCEPT !["t2"] = Snapshot]
    /\ UNCHANGED <<world, faults, index_file, auth_file, deletion_audit_file,
                   final_backups, ret>>

\* the report with only the violations that satisfy keep
ReportOf(es, keep(_)) ==
    IF es = <<>> THEN validate_chain(es)
    ELSE LET invalid_entries == SelectSeq(Violations(es, 1, GENESIS), keep)
         IN [ valid |-> Len(invalid_entries) = 0,
              total_entries |-> Len(es),
              invalid_entries |-> invalid_entries,
              message |-> IF Len(invalid_entries) = 0 THEN "Chain is valid"
                          ELSE "Found " \o ToString(Len(invalid_entries))
                               \o " integrity violations" ]

\* ValidateChain with the bug of not comparing previous_hash
ValidateChainHashesOnly(t) ==
    /\ Begin(t, [op |-> "validate_chain"])
    /\ pc' = [pc EXCEPT ![t] = "done"]
    /\ ret' = [ret EXCEPT ![t] =
          Returned(ReportOf(entries, LAMBDA v : ~v.chain_break))]
    /\ UNCHANGED <<faults, store, files>>

\* ValidateChain with the bug of reporting nothing after the first bad entry
ValidateChainFirstOnly(t) ==
    /\ Begin(t, [op |-> "validate_chain"])
    /\ pc' = [pc EXCEPT ![t] = "done"]
    /\ ret' = [ret EXCEPT ![t] =
          Returned(ReportOf(entries,
              LAMBDA v : v.index = Violations(entries, 1, GENESIS)[1].index))]
    /\ UNCHANGED <<faults, store, files>>

\* SmartLedger.validate_chain, lines 267-323, called by an auditor
ValidateChain(t) ==
    /\ Begin(t, [op |-> "validate_chain"])
    /\ pc' = [pc EXCEPT ![t] = "done"]
    /\ ret' = [ret EXCEPT ![t] = Returned(validate_chain(entries))]
    /\ UNCHANGED <<faults, store, files>>

\* an auditor validates a stored chain that may have been edited
NextStored ==
    \/ \E i \in 1..Len(ledger_file.chunks), f \in EntryFields :
          \E v \in OtherValues(f, ledger_file.chunks[i].e[f]) : Tamper(i, f, v)
    \/ \E i \in 1..Len(ledger_file.chunks) : RemoveLine(i)
    \/ ValidateChain("t1")
    \/ Return("t1")
SpecStored == InitStored /\ [][NextStored]_vars

(* ------------------------------ get_entries ---------------------------- *)

\* start_time / end_time left at None (or given empty): the filter is skipped
NoTime == -1

\* [e for e in filtered_entries if ...], lines 249-259: a filter whose
\* argument is None or empty is skipped
Filtered(es, q) ==
    LET by_type == IF Falsy(q.action_type) THEN es
                   ELSE SelectSeq(es, LAMBDA e : e.action_type = q.action_type)
        by_user == IF Falsy(q.user_id) THEN by_type
                   ELSE SelectSeq(by_type, LAMBDA e : e.user_id = q.user_id)
        by_start == IF q.start_time = NoTime THEN by_user
                    ELSE SelectSeq(by_user, LAMBDA e : e.timestamp >= q.start_time)
    IN IF q.end_time = NoTime THEN by_start
       ELSE SelectSeq(by_start, LAMBDA e : e.timestamp <= q.end_time)

\* list.sort(key=timestamp, reverse=True), line 262: stable, so entries with
\* equal timestamps keep their order
RECURSIVE SortNewestFirst(_)
SortNewestFirst(s) ==
    IF s = <<>> THEN <<>>
    ELSE LET x == Last(s)
             sorted == SortNewestFirst(SubSeq(s, 1, Len(s) - 1))
             newer == SelectSeq(sorted, LAMBDA e : e.timestamp >= x.timestamp)
             older == SelectSeq(sorted, LAMBDA e : e.timestamp < x.timestamp)
         IN newer \o <<x>> \o older

\* s[a:b] for a, b >= 0
Slice(s, a, b) == SubSeq(s, a + 1, IF b < Len(s) THEN b ELSE Len(s))

\* SmartLedger.get_entries, lines 230-265
get_entries(es, q) ==
    Slice(SortNewestFirst(Filtered(es, q)), q.offset, q.offset + q.limit)

\* the arguments of the get_entries calls
Queries ==
    [ limit : {1, 2, 100}, offset : {0, 1},
      action_type : {NoneVal, "system"},
      user_id : {NoneVal, "nobody"},
      start_time : {NoTime, 1}, end_time : {NoTime, 0} ]

\* the chain that record_action calls with the arguments as build when the
\* clock reads at[i] at the i-th call
RECURSIVE RecordAllAt(_, _, _, _)
RecordAllAt(as, at, es, lh) ==
    IF as = <<>> THEN es
    ELSE LET entry_dict == to_dict(calculate_hash(
                 SmartLedgerEntry(Head(as), Head(at)), lh, Head(at) * 1000))
         IN RecordAllAt(Tail(as), Tail(at), Append(es, entry_dict),
                        entry_dict.entry_hash)

\* the readings of a clock that does not go back
ClockReadings(n) ==
    { at \in [1..n -> 0..MaxClock] : \A i \in 1..(n - 1) : at[i] <= at[i + 1] }

\* the chains earlier runs recorded, several entries within one clock reading
\* included
TimedChains ==
    UNION { { RecordAllAt(as, at, <<>>, GENESIS) :
                as \in [1..n -> RecordArgs], at \in ClockReadings(n) } :
            n \in 0..MaxChain }

\* SmartLedger.__init__ on a data directory that holds one of those chains
InitTimed ==
    /\ ledger_name \in LedgerNames
    /\ ledger_instances = Registered(ledger_name, FirstStore)
    /\ now = MaxClock
    /\ calls = 0
    /\ faults = 0
    /\ \E es \in TimedChains :
         LET f == IF es = <<>> THEN AbsentFile ELSE WriteAll(AbsentFile, es)
             loaded == load_ledger(f, NoFiles, MaxClock)
         IN /\ entries = loaded.entries
            /\ last_hash = loaded.last_hash
            /\ ledger_file = loaded.file
            /\ quarantine = loaded.quarantine
            /\ index_file = IF es = <<>> THEN AbsentIndex
                            ELSE ReadableIndex(IndexOf(es, Last(es).entry_hash))
    /\ auth_file = <<>>
    /\ deletion_audit_file = <<>>
    /\ final_backups = NoFiles
    /\ pc = [t \in Threads |-> "idle"]
    /\ local = [t \in Threads |-> NoLocal]
    /\ ret = [t \in Threads |-> NoRet]
    /\ pre = [t \in Threads |-> NoPre]

\* GetEntries with the bug of slicing [offset:limit]
GetEntriesShortPage(t, q) ==
    /\ Begin(t, [op |-> "get_entries", q |-> q])
    /\ pc' = [pc EXCEPT ![t] = "done"]
    /\ ret' = [ret EXCEPT ![t] =
          Returned(Slice(SortNewestFirst(Filtered(entries, q)), q.offset, q.limit))]
    /\ UNCHANGED <<faults, store, files>>

\* GetEntries with the bug of sorting self.entries itself, not a copy
GetEntriesSortsInPlace(t, q) ==
    /\ Begin(t, [op |-> "get_entries", q |-> q])
    /\ pc' = [pc EXCEPT ![t] = "done"]
    /\ ret' = [ret EXCEPT ![t] = Returned(get_entries(entries, q))]
    /\ entries' = SortNewestFirst(entries)
    /\ UNCHANGED <<faults, last_hash, files>>

\* SmartLedger.get_entries called by a reader
GetEntries(t, q) ==
    /\ Begin(t, [op |-> "get_entries", q |-> q])
    /\ pc' = [pc EXCEPT ![t] = "done"]
    /\ ret' = [ret EXCEPT ![t] = Returned(get_entries(entries, q))]
    /\ UNCHANGED <<faults, store, files>>

\* a reader queries a loaded chain
NextQuery ==
    \/ \E q \in Queries : GetEntries("t1", q)
    \/ Return("t1")
SpecQuery == InitTimed /\ [][NextQuery]_vars

(* ------------------------- opening a store again ----------------------- *)

\* Reopen with the bug of keeping the lines read before the bad one
ReopenKeepsPartialData(t) ==
    /\ Begin(t, [op |-> "open"])
    /\ LET good == IF \E i \in 1..Len(ledger_file.chunks) : ~ReadableLine(ledger_file, i)
                   THEN (CHOOSE i \in 1..Len(ledger_file.chunks) :
                            /\ ~ReadableLine(ledger_file, i)
                            /\ \A j \in 1..(i - 1) : ReadableLine(ledger_file, j)) - 1
                   ELSE Len(ledger_file.chunks)
           es == SubSeq(LinesFrom(ledger_file, 1), 1, good)
       IN /\ entries' = es
          /\ last_hash' = IF es # <<>> THEN Last(es).entry_hash ELSE GENESIS
    /\ pc' = [pc EXCEPT ![t] = "done"]
    /\ ret' = [ret EXCEPT ![t] = Returned(NoneVal)]
    /\ UNCHANGED <<faults, files>>

\* The process starts again and constructs the store on what the data
\* directory holds, lines 85-129: __init__ and _load_ledger.
Reopen(t) ==
    /\ Begin(t, [op |-> "open"])
    /\ LET loaded == load_ledger(ledger_file, quarantine, now)
       IN /\ entries' = loaded.entries
          /\ last_hash' = loaded.last_hash
          /\ ledger_file' = loaded.file
          /\ quarantine' = loaded.quarantine
    /\ pc' = [pc EXCEPT ![t] = "done"]
    /\ ret' = [ret EXCEPT ![t] = Returned(NoneVal)]
    /\ UNCHANGED <<faults, index_file, auth_file, deletion_audit_file,
                   final_backups>>

\* one caller records, and the process is started again between calls
NextOpen ==
    \/ Tick("t1")
    \/ \E a \in RecordArgs : RecordCreate("t1", a)
    \/ RecordHash("t1")
    \/ RecordAppend("t1")
    \/ RecordWrite("t1")
    \/ RecordSetHash("t1")
    \/ RecordUpdateIndex("t1")
    \/ RecordExcept("t1")
    \/ Reopen("t1")
    \/ Return("t1")
SpecOpen == Init /\ [][NextOpen]_vars

(* ---------------------------- calculate_hash --------------------------- *)

\* arguments whose texts hold the separator of the f-string, and metadata
\* given in either order of insertion
HashArgs ==
    { [ action_type |-> "user", action |-> "note", target |-> "desk",
        details |-> d.details, user_id |-> d.user_id, smart_id |-> "",
        metadata |-> m ] :
        d \in { [details |-> "a:b", user_id |-> "c"],
                [details |-> "a",   user_id |-> "b:c"],
                [details |-> "a",   user_id |-> "c"] },
        m \in { <<>>,
                << [k |-> "k1", v |-> "x"], [k |-> "version", v |-> "2.0"] >>,
                << [k |-> "version", v |-> "2.0"], [k |-> "k1", v |-> "x"] >> } }

\* the hashes an entry is chained to
HashPredecessors == {GENESIS, EarlierEntry.entry_hash}

\* lines 46-56 on a fresh entry: the entry is stamped, hashed and kept by the
\* caller; the store is not involved
CalculateHash(t, a, previous_hash) ==
    /\ Begin(t, [ op |-> "calculate_hash",
                  entry |-> calculate_hash(SmartLedgerEntry(a, now),
                                           previous_hash, now * 1000) ])
    /\ pc' = [pc EXCEPT ![t] = "done"]
    /\ ret' = [ret EXCEPT ![t] =
                  Returned(calculate_hash(SmartLedgerEntry(a, now),
                                          previous_hash, now * 1000).entry_hash)]
    /\ UNCHANGED <<faults, store, files>>

\* two entries are built and hashed side by side
NextHash ==
    \E t \in Threads :
        \/ Tick(t)
        \/ \E a \in HashArgs, h \in HashPredecessors : CalculateHash(t, a, h)
        \/ Return(t)
SpecHash == Init /\ [][NextHash]_vars

(* --------------------------- the data directory ------------------------ *)

\* ledger_path with the bug of one file name for every ledger
ledger_path_unnamed(name) == "ledger.jsonl"

\* self.ledger_file, line 89
ledger_path(name) == name \o "_ledger.jsonl"

\* self.index_file, line 90
index_path(name) == name \o "_index.json"

\* self.auth_file, line 91
auth_path(name) == name \o "_auth.json"

\* self.deletion_audit_file, line 92: one file for all ledgers
deletion_audit_path == "deletion_audit.jsonl"

\* backup_file, line 124
backup_file(ts) == "smart_ledger_backup_" \o ToString(ts) \o ".jsonl"

\* final_backup, line 429
final_backup(name, ts) == "FINAL_BACKUP_" \o name \o "_" \o ToString(ts) \o ".jsonl"

\* What the data directory holds under a file name, as far as the store named
\* ledger_name made it so: the store reads and writes the files of lines 89-92,
\* 124 and 429 and no other.
Content(p) ==
    IF p = ledger_path(ledger_name) THEN [ledger |-> ledger_file]
    ELSE IF p = index_path(ledger_name) THEN [index |-> index_file]
    ELSE IF p = auth_path(ledger_name) THEN [auth |-> auth_file]
    ELSE IF p = deletion_audit_path THEN [audit |-> deletion_audit_file]
    ELSE IF \E ts \in DOMAIN quarantine : p = backup_file(ts)
    THEN [quarantined |-> quarantine[CHOOSE ts \in DOMAIN quarantine : p = backup_file(ts)]]
    ELSE IF \E ts \in DOMAIN final_backups : p = final_backup(ledger_name, ts)
    THEN [backup |-> final_backups[CHOOSE ts \in DOMAIN final_backups :
                                        p = final_backup(ledger_name, ts)]]
    ELSE [untouched |-> TRUE]

(* ------------------------------ get_ledger ----------------------------- *)

\* _ledger_instances = {}, line 492
NoInstances == [n \in {} |-> ""]

\* the object SmartLedger(ledger_name) constructed by caller t
StoreOf(t) == "store-" \o t

\* the module is imported: no store is registered, the data directory holds
\* what an earlier run left
InitRegistry ==
    /\ ledger_name \in LedgerNames
    /\ ledger_instances = NoInstances
    /\ now = 0
    /\ calls = 0
    /\ faults = 0
    /\ entries = <<>>
    /\ last_hash = GENESIS
    /\ \E disk \in InitialDisks :
         /\ ledger_file = disk.file
         /\ index_file = disk.index
    /\ quarantine = NoFiles
    /\ auth_file = <<>>
    /\ deletion_audit_file = <<>>
    /\ final_backups = NoFiles
    /\ pc = [t \in Threads |-> "idle"]
    /\ local = [t \in Threads |-> NoLocal]
    /\ ret = [t \in Threads |-> NoRet]
    /\ pre = [t \in Threads |-> NoPre]

\* line 497: if ledger_name not in _ledger_instances
GetLedgerCheck(t) ==
    /\ Begin(t, [op |-> "get_ledger"])
    /\ pc' = [pc EXCEPT ![t] = IF ledger_name \in DOMAIN ledger_instances
                               THEN "gl_return" ELSE "gl_construct"]
    /\ UNCHANGED <<faults, store, files, ret>>

\* line 498, right-hand side: SmartLedger(ledger_name) reads the backing file
\* into the new object, lines 85-129
GetLedgerConstruct(t) ==
    /\ pc[t] = "gl_construct"
    /\ LET loaded == load_ledger(ledger_file, quarantine, now)
       IN /\ local' = [local EXCEPT ![t] =
                [ op |-> "get_ledger",
                  instance |-> [ id |-> StoreOf(t), entries |-> loaded.entries,
                                 last_hash |-> loaded.last_hash ] ]]
          /\ ledger_file' = loaded.file
          /\ quarantine' = loaded.quarantine
    /\ pc' = [pc EXCEPT ![t] = "gl_register"]
    /\ UNCHANGED <<world, faults, store, index_file, auth_file,
                   deletion_audit_file, final_backups, ret, pre>>

\* line 498, the assignment: the new object is registered under the name.
\* entries and last_hash are those of the registered store.
GetLedgerRegister(t) ==
    /\ pc[t] = "gl_register"
    /\ ledger_instances' =
         [n \in DOMAIN ledger_instances \cup {ledger_name} |->
            IF n = ledger_name THEN local[t].instance.id ELSE ledger_instances[n]]
    /\ entries' = local[t].instance.entries
    /\ last_hash' = local[t].instance.last_hash
    /\ pc' = [pc EXCEPT ![t] = "gl_return"]
    /\ UNCHANGED <<ledger_name, now, calls, faults, files, local, ret, pre>>

\* line 499: return _ledger_instances[ledger_name]
GetLedgerReturn(t) ==
    /\ pc[t] = "gl_return"
    /\ ret' = [ret EXCEPT ![t] = Returned(ledger_instances[ledger_name])]
    /\ pc' = [pc EXCEPT ![t] = "done"]
    /\ UNCHANGED <<world, faults, store, files, local, pre>>

\* the request handlers of the server call get_ledger from their own threads
NextRegistry ==
    \E t \in Threads :
        \/ Tick(t)
        \/ GetLedgerCheck(t)
        \/ GetLedgerConstruct(t)
        \/ GetLedgerRegister(t)
        \/ GetLedgerReturn(t)
        \/ Return(t)
SpecRegistry == InitRegistry /\ [][NextRegistry]_vars

(* ----------------------- create_transfer_package ----------------------- *)

\* self.entries[-5:], line 471
BootstrapLen == 5

\* the longest chain handed over
MaxLong == 6

\* self.entries[-5:] if len(self.entries) >= 5 else self.entries
bootstrap_entries(es) ==
    IF Len(es) >= BootstrapLen
    THEN SubSeq(es, Len(es) - BootstrapLen + 1, Len(es)) ELSE es

\* SmartLedger.create_transfer_package, lines 462-488
create_transfer_package(name, es, lh, idx, ts) ==
    IF es = <<>>
    THEN [error |-> "No entries to transfer", ledger_name |-> name]
    ELSE [ transfer_timestamp |-> isoformat(ts),
           source_ledger |-> name,
           total_entries |-> Len(es),
           final_hash |-> lh,
           bootstrap_entries |-> bootstrap_entries(es),
           hash_validation |-> validate_chain(es),
           transfer_metadata |->
               [ first_entry |-> isoformat(es[1].timestamp),
                 last_entry |-> isoformat(Last(es).timestamp),
                 ledger_stats |-> get_stats(es, lh, idx) ] ]

\* the chains earlier runs recorded, some longer than the bootstrap tail
LongChains ==
    { RecordAll([i \in 1..n |-> a], <<>>, GENESIS) :
        n \in 0..MaxLong, a \in RecordArgs }

\* SmartLedger.__init__ on a data directory that holds one of those chains
InitLong ==
    /\ ledger_name \in LedgerNames
    /\ ledger_instances = Registered(ledger_name, FirstStore)
    /\ now = 0
    /\ calls = 0
    /\ faults = 0
    /\ \E es \in LongChains :
         LET f == IF es = <<>> THEN AbsentFile ELSE WriteAll(AbsentFile, es)
             loaded == load_ledger(f, NoFiles, 0)
         IN /\ entries = loaded.entries
            /\ last_hash = loaded.last_hash
            /\ ledger_file = loaded.file
            /\ quarantine = loaded.quarantine
            /\ index_file = IF es = <<>> THEN AbsentIndex
                            ELSE ReadableIndex(IndexOf(es, Last(es).entry_hash))
    /\ auth_file = <<>>
    /\ deletion_audit_file = <<>>
    /\ final_backups = NoFiles
    /\ pc = [t \in Threads |-> "idle"]
    /\ local = [t \in Threads |-> NoLocal]
    /\ ret = [t \in Threads |-> NoRet]
    /\ pre = [t \in Threads |-> NoPre]

\* CreateTransferPackage with the bug of raising on an empty chain
CreateTransferPackageRaises(t) ==
    /\ Begin(t, [op |-> "create_transfer_package"])
    /\ pc' = [pc EXCEPT ![t] = "done"]
    /\ ret' = [ret EXCEPT ![t] =
          IF entries = <<>> THEN Raised("ValueError")
          ELSE Returned(create_transfer_package(ledger_name, entries, last_hash,
                                                index_file, now))]
    /\ UNCHANGED <<faults, store, files>>

\* CreateTransferPackage with the bug of taking self.entries[:5]
CreateTransferPackageHead(t) ==
    /\ Begin(t, [op |-> "create_transfer_package"])
    /\ pc' = [pc EXCEPT ![t] = "done"]
    /\ ret' = [ret EXCEPT ![t] =
          LET package == create_transfer_package(ledger_name, entries, last_hash,
                                                 index_file, now)
          IN Returned(IF entries = <<>> THEN package
                      ELSE [package EXCEPT !.bootstrap_entries =
                              SubSeq(entries, 1,
                                     IF Len(entries) >= BootstrapLen
                                     THEN BootstrapLen ELSE Len(entries))])]
    /\ UNCHANGED <<faults, store, files>>

\* SmartLedger.create_transfer_package called by an operator
CreateTransferPackage(t) ==
    /\ Begin(t, [op |-> "create_transfer_package"])
    /\ pc' = [pc EXCEPT ![t] = "done"]
    /\ ret' = [ret EXCEPT ![t] =
          Returned(create_transfer_package(ledger_name, entries, last_hash,
                                           index_file, now))]
    /\ UNCHANGED <<faults, store, files>>

\* an operator asks for the transfer package of a loaded chain
NextTransfer ==
    \/ Tick("t1")
    \/ CreateTransferPackage("t1")
    \/ Return("t1")
SpecTransfer == InitLong /\ [][NextTransfer]_vars

(* -------------------- calls made through the registry ----------------- *)

\* the object SmartLedger(ledger_name) constructed during the n-th call
StoreNo(n) == "store-" \o ToString(n)

\* lines 497-498 for a single caller: the name is not registered, so a store
\* is constructed on what the data directory holds and registered; entries
\* and last_hash are those of the registered store
ConstructAndRegister(t, then) ==
    /\ ledger_name \notin DOMAIN ledger_instances
    /\ LET loaded == load_ledger(ledger_file, quarantine, now)
       IN /\ entries' = loaded.entries
          /\ last_hash' = loaded.last_hash
          /\ ledger_file' = loaded.file
          /\ quarantine' = loaded.quarantine
    /\ ledger_instances' =
         [n \in DOMAIN ledger_instances \cup {ledger_name} |->
            IF n = ledger_name THEN StoreNo(calls) ELSE ledger_instances[n]]
    /\ pc' = [pc EXCEPT ![t] = then]
    /\ UNCHANGED <<ledger_name, now, calls, faults, index_file, auth_file,
                   deletion_audit_file, final_backups, local, ret, pre>>

\* authorize_and_delete_ledger, line 503: ledger = get_ledger(ledger_name)
AuthorizeAndDelete(t, d) ==
    /\ Begin(t, [ op |-> "delete", smart_id |-> d.smart_id, reason |-> d.reason,
                  supervisor_id |-> d.supervisor_id ])
    /\ pc' = [pc EXCEPT ![t] = IF ledger_name \in DOMAIN ledger_instances
                               THEN "ad_authorize" ELSE "ad_construct"]
    /\ UNCHANGED <<faults, store, files, ret>>

AuthorizeAndDeleteConstruct(t) ==
    /\ pc[t] = "ad_construct"
    /\ ConstructAndRegister(t, "ad_authorize")

\* line 504 entering authorized_ledger_deletion, lines 400-405: the attempt
\* is logged (a failed write is swallowed), then the decision is taken
AuthorizeAndDeleteAuthorize(t) ==
    /\ pc[t] = "ad_authorize"
    /\ \/ /\ Succeeds
          /\ auth_file' = Append(auth_file,
                auth_attempt(ledger_name, local[t].smart_id, local[t].reason,
                             local[t].supervisor_id, now))
       \/ Fails /\ auth_file' = auth_file
    /\ IF authorize_ledger_deletion(ledger_name, local[t].smart_id,
                                    local[t].supervisor_id)
       THEN /\ pc' = [pc EXCEPT ![t] = "del_record"]
            /\ ret' = ret
       ELSE /\ pc' = [pc EXCEPT ![t] = "done"]
            /\ ret' = [ret EXCEPT ![t] = Raised("PermissionError")]
    /\ UNCHANGED <<world, store, ledger_file, index_file, deletion_audit_file,
                   final_backups, quarantine, local, pre>>

\* AuthorizeAndDeleteFinish with the bug of leaving the store registered
AuthorizeAndDeleteKeepsStore(t) ==
    /\ pc[t] = "del_clear"
    /\ entries' = <<>>
    /\ last_hash' = GENESIS
    /\ ledger_instances' = ledger_instances
    /\ pc' = [pc EXCEPT ![t] = "done"]
    /\ ret' = [ret EXCEPT ![t] = Returned(NoneVal)]
    /\ UNCHANGED <<ledger_name, now, calls, faults, files, local, pre>>

\* lines 452-456, the in-memory chain is reset and the method returns, and
\* lines 506-509, the store is taken out of the registry
AuthorizeAndDeleteFinish(t) ==
    /\ pc[t] = "del_clear"
    /\ entries' = <<>>
    /\ last_hash' = GENESIS
    /\ ledger_instances' =
         [n \in DOMAIN ledger_instances \ {ledger_name} |-> ledger_instances[n]]
    /\ pc' = [pc EXCEPT ![t] = "done"]
    /\ ret' = [ret EXCEPT ![t] = Returned(NoneVal)]
    /\ UNCHANGED <<ledger_name, now, calls, faults, files, local, pre>>

\* get_ledger(name).record_action(...), as at lines 528-550
GetLedgerRecord(t, a) ==
    /\ Begin(t, [op |-> "record_action", args |-> a])
    /\ pc' = [pc EXCEPT ![t] = IF ledger_name \in DOMAIN ledger_instances
                               THEN "gr_create" ELSE "gr_construct"]
    /\ UNCHANGED <<faults, store, files, ret>>

GetLedgerRecordConstruct(t) ==
    /\ pc[t] = "gr_construct"
    /\ ConstructAndRegister(t, "gr_create")

\* lines 150-159: the entry is constructed and stamped
GetLedgerRecordCreate(t) ==
    /\ pc[t] = "gr_create"
    /\ local' = [local EXCEPT ![t] =
                    [ op |-> "record_action",
                      entry |-> SmartLedgerEntry(local[t].args, now) ]]
    /\ pc' = [pc EXCEPT ![t] = "ra_hash"]
    /\ UNCHANGED <<world, faults, store, files, ret, pre>>

\* one caller deletes and records through the module-level functions
NextRegistered ==
    \/ Tick("t1")
    \/ \E d \in DeleteArgs : AuthorizeAndDelete("t1", d)
    \/ AuthorizeAndDeleteConstruct("t1")
    \/ AuthorizeAndDeleteAuthorize("t1")
    \/ DeleteBuildRecord("t1")
    \/ DeleteAudit("t1")
    \/ DeleteBackup("t1")
    \/ DeleteUnlinkLedger("t1")
    \/ DeleteUnlinkIndex("t1")
    \/ AuthorizeAndDeleteFinish("t1")
    \/ \E a \in RecordArgs : GetLedgerRecord("t1", a)
    \/ GetLedgerRecordConstruct("t1")
    \/ GetLedgerRecordCreate("t1")
    \/ RecordHash("t1")
    \/ RecordAppend("t1")
    \/ RecordWrite("t1")
    \/ RecordSetHash("t1")
    \/ RecordUpdateIndex("t1")
    \/ RecordExcept("t1")
    \/ Return("t1")
SpecRegistered == Init /\ [][NextRegistered]_vars

(* ---------------------- deletion of a longer chain --------------------- *)

\* the longest chain that is deleted: one entry more than the audited tail
MaxAudited == 11

\* the chains an earlier run recorded within one second: none, one entry,
\* and the lengths around the tail kept in the deletion record
AuditedChains ==
    LET a == CHOOSE r \in RecordArgs : r.smart_id # ""
    IN { RecordAllAt([i \in 1..n |-> a], [i \in 1..n |-> 0], <<>>, GENESIS) :
           n \in {0, 1} \cup (TailLen - 1)..MaxAudited }

\* SmartLedger.__init__ on a data directory that holds one of those chains
InitAudited ==
    /\ ledger_name \in LedgerNames
    /\ ledger_instances = Registered(ledger_name, FirstStore)
    /\ now = 0
    /\ calls = 0
    /\ faults = 0
    /\ \E es \in AuditedChains :
         LET f == IF es = <<>> THEN AbsentFile ELSE WriteAll(AbsentFile, es)
             loaded == load_ledger(f, NoFiles, 0)
         IN /\ entries = loaded.entries
            /\ last_hash = loaded.last_hash
            /\ ledger_file = loaded.file
            /\ quarantine = loaded.quarantine
            /\ index_file = IF es = <<>> THEN AbsentIndex
                            ELSE ReadableIndex(IndexOf(es, Last(es).entry_hash))
    /\ auth_file = <<>>
    /\ deletion_audit_file = <<>>
    /\ final_backups = NoFiles
    /\ pc = [t \in Threads |-> "idle"]
    /\ local = [t \in Threads |-> NoLocal]
    /\ ret = [t \in Threads |-> NoRet]
    /\ pre = [t \in Threads |-> NoPre]

\* one caller deletes the chain
NextAudited ==
    \/ Tick("t1")
    \/ \E d \in DeleteArgs : DeleteAuthorize("t1", d)
    \/ DeleteBuildRecord("t1")
    \/ DeleteAudit("t1")
    \/ DeleteBackup("t1")
    \/ DeleteUnlinkLedger("t1")
    \/ DeleteUnlinkIndex("t1")
    \/ DeleteClear("t1")
    \/ Return("t1")
SpecAudited == InitAudited /\ [][NextAudited]_vars

(* ------------------------- trails of earlier runs ---------------------- *)

\* the attempt an earlier run logged in the authorization-attempt trail
EarlierAttempt(name) == auth_attempt(name, "STF-001", "cleanup", NoneVal, 0)

\* the record an earlier run appended to the deletion-audit trail when it
\* deleted an empty ledger of the name, lines 408-417
EarlierDeletion(name) ==
    [ deletion_timestamp |-> isoformat(0),
      authorized_by |-> "STF-001",
      supervisor_by |-> "SUP-001",
      reason |-> "cleanup",
      ledger_name |-> name,
      ledger_stats |-> get_stats(<<>>, GENESIS, AbsentIndex),
      final_entries |-> final_entries(<<>>),
      hash_chain_validation |-> validate_chain(<<>>) ]

\* the module is imported in a data directory whose trails hold the records
\* of an earlier run; no store is constructed yet
InitTrails ==
    /\ ledger_name \in LedgerNames
    /\ ledger_instances = NoInstances
    /\ now = 0
    /\ calls = 0
    /\ faults = 0
    /\ entries = <<>>
    /\ last_hash = GENESIS
    /\ \E disk \in InitialDisks :
         /\ ledger_file = disk.file
         /\ index_file = disk.index
    /\ quarantine = NoFiles
    /\ auth_file = <<EarlierAttempt(ledger_name)>>
    /\ deletion_audit_file = <<EarlierDeletion(ledger_name)>>
    /\ final_backups = NoFiles
    /\ pc = [t \in Threads |-> "idle"]
    /\ local = [t \in Threads |-> NoLocal]
    /\ ret = [t \in Threads |-> NoRet]
    /\ pre = [t \in Threads |-> NoPre]

\* one caller deletes and records through the module-level functions; the
\* first call constructs the store, recovering from a corrupt file if need be
SpecTrails == InitTrails /\ [][NextRegistered]_vars

(* ------------------------ get_stats after a restart -------------------- *)

\* the index files an earlier run may have left beside the chain es: none,
\* or the index as it was after any number of the entries (the earlier run's
\* later index writes failed or the file was restored from a copy)
IndexesLeft(es) ==
    {AbsentIndex} \cup
    { ReadableIndex(IndexOf(SubSeq(es, 1, k),
                            IF k = 0 THEN GENESIS ELSE es[k].entry_hash)) :
        k \in 0..Len(es) }

\* SmartLedger.__init__ on a data directory that holds a readable backing
\* file and one of those index files; _load_ledger (lines 104-129) reads the
\* backing file only
InitRestart ==
    /\ ledger_name \in LedgerNames
    /\ ledger_instances = Registered(ledger_name, FirstStore)
    /\ now = 0
    /\ calls = 0
    /\ faults = 0
    /\ \E es \in StoredChains \ {<<>>} :
         LET loaded == load_ledger(WriteAll(AbsentFile, es), NoFiles, 0)
         IN /\ entries = loaded.entries
            /\ last_hash = loaded.last_hash
            /\ ledger_file = loaded.file
            /\ quarantine = loaded.quarantine
            /\ index_file \in IndexesLeft(es)
    /\ auth_file = <<>>
    /\ deletion_audit_file = <<>>
    /\ final_backups = NoFiles
    /\ pc = [t \in Threads |-> "idle"]
    /\ local = [t \in Threads |-> NoLocal]
    /\ ret = [t \in Threads |-> NoRet]
    /\ pre = [t \in Threads |-> NoPre]

\* a reader asks the restarted store for its statistics
NextRestart ==
    \/ GetStats("t1")
    \/ Return("t1")
SpecRestart == InitRestart /\ [][NextRestart]_vars

(* ----------------------- get_all_recent_activities --------------------- *)

\* tab_ledgers, line 557
tab_ledgers == {"modules", "nodes", "domains", "equipment", "users", "system"}

\* get_entries(limit=20), line 562: the other arguments are the defaults
RecentLimit == 20
RecentQuery ==
    [ limit |-> RecentLimit, offset |-> 0, action_type |-> NoneVal,
      user_id |-> NoneVal, start_time |-> NoTime, end_time |-> NoTime ]

\* the queries of the callers that page through the chain
PageQueries == {q \in Queries : q.user_id = NoneVal /\ q.start_time = NoTime
                                   /\ q.end_time = NoTime /\ q.limit = 100}

\* activity["tab_source"] = tab_name, line 566: the key is set on the dict
Tagged(e, tab_name) ==
    [ entry_id |-> e.entry_id, timestamp |-> e.timestamp,
      action_type |-> e.action_type, action |-> e.action, target |-> e.target,
      details |-> e.details, user_id |-> e.user_id, smart_id |-> e.smart_id,
      metadata |-> e.metadata, previous_hash |-> e.previous_hash,
      entry_hash |-> e.entry_hash, tab_source |-> tab_name ]

\* the store's list after the dicts of the set given were tagged
RECURSIVE TagGiven(_, _, _)
TagGiven(es, given, tab_name) ==
    IF es = <<>> THEN <<>>
    ELSE <<IF Head(es) \in given THEN Tagged(Head(es), tab_name) ELSE Head(es)>>
         \o TagGiven(Tail(es), given, tab_name)

RECURSIVE TagAll(_, _)
TagAll(es, tab_name) ==
    IF es = <<>> THEN <<>>
    ELSE <<Tagged(Head(es), tab_name)>> \o TagAll(Tail(es), tab_name)

\* Lines 552-574.  get_entries returns a new list of the very dicts the store
\* holds (list.copy() at line 247 copies the list, not its items), so the key
\* set at line 566 is set on the store's entries of every ledger of the tabs.
\* The other tab ledgers are other stores; the result is given for this one.
GetAllRecentActivities(t) ==
    /\ Begin(t, [op |-> "get_all_recent_activities"])
    /\ LET activities == IF ledger_name \in tab_ledgers
                         THEN get_entries(entries, RecentQuery) ELSE <<>>
           given == {activities[i] : i \in 1..Len(activities)}
       IN /\ entries' = TagGiven(entries, given, ledger_name)
          /\ ret' = [ret EXCEPT ![t] =
                        Returned(TagAll(activities, ledger_name))]
    /\ pc' = [pc EXCEPT ![t] = "done"]
    /\ UNCHANGED <<faults, last_hash, files>>

\* one caller at a time uses every operation of the store
NextMix ==
    \/ Tick("t1")
    \/ Step("t1")
    \/ \E q \in PageQueries : GetEntries("t1", q)
    \/ ValidateChain("t1")
    \/ CreateTransferPackage("t1")
    \/ \E d \in DeleteArgs : AuthorizeDeletion("t1", d)
    \/ GetAllRecentActivities("t1")
SpecMix == Init /\ [][NextMix]_vars

(* ------------------------------- claims -------------------------------- *)

\* no call is in progress
Quiescent == \A t \in Threads : pc[t] \in {"idle", "done"}

\* the chain-link invariant of a sequence of entries
ChainLinked(es) ==
    \A i \in 1..Len(es) :
        es[i].previous_hash = IF i = 1 THEN GENESIS ELSE es[i - 1].entry_hash

\* the complete lines of the backing file: one per successful append
CompleteWrites(f) == {i \in 1..Len(f.chunks) : f.chunks[i].complete}

Finished(t, op) == local[t].op = op /\ pc[t] = "done"

\* the step is one of t's deletion call that removes the backing file or the
\* index file, or resets the in-memory chain
Removes(t) ==
    /\ local[t].op = "delete" /\ pc'[t] # pc[t]
    /\ \/ ledger_file.exists /\ ~ledger_file'.exists
       \/ index_file.state # "absent" /\ index_file'.state = "absent"
       \/ pc[t] = "del_clear" /\ entries' = <<>> /\ last_hash' = GENESIS

\* the deletion-audit trail holds the record of t's call, appended in the call
AuditWritten(t) ==
    \E i \in (Len(pre[t].deletion_audit_file) + 1)..Len(deletion_audit_file) :
        /\ deletion_audit_file[i] = local[t].deletion_record
        /\ deletion_audit_file[i].ledger_name = ledger_name

\* C1: every step of a deletion call that removes the backing file or the
\* index file, or resets the in-memory chain, starts in a state whose
\* deletion-audit trail already holds the record that the same call appended.
C1_AuditBeforeRemoval ==
    [][\A t \in Threads : Removes(t) => AuditWritten(t)]_vars

C1_Witness ==
    \E t \in Threads :
        /\ Finished(t, "delete") /\ ret[t].kind = "return"
        /\ pre[t].ledger_file.exists /\ ~ledger_file.exists
        /\ pre[t].entries # <<>> /\ entries = <<>>
        /\ AuditWritten(t)

\* C2: after any sequence of record_action calls with no deletion,
\* validate_chain reports valid = true, no violation, and as many entries as
\* appends succeeded (each leaves one complete line in the backing file).
C2_AppendsValidate ==
    (Quiescent /\ deletion_audit_file = <<>>) =>
        LET v == validate_chain(entries)
        IN /\ v.valid
           /\ v.total_entries = Cardinality(CompleteWrites(ledger_file))
           /\ entries # <<>> => v.invalid_entries = <<>>

\* two appends on a store that started empty (the first entry is not the one
\* an earlier run left)
C2_Witness ==
    /\ Quiescent /\ deletion_audit_file = <<>> /\ faults = 0
    /\ Len(entries) = 2 /\ entries[1].action_type = "module"
    /\ validate_chain(entries).total_entries = 2

\* C3: after any sequential mix of record_action calls (succeeding or
\* failing) and deletions, the first entry's previous_hash is the genesis
\* sentinel and every later entry's previous_hash is its predecessor's
\* entry_hash.
C3_ChainLinkInvariant == Quiescent => ChainLinked(entries)

\* an append that followed a failed one: two entries, linked, and a torn line
C3_Witness ==
    /\ Quiescent /\ Len(entries) = 2
    /\ entries[2].previous_hash = entries[1].entry_hash
    /\ \E i \in 1..Len(ledger_file.chunks) : ~ledger_file.chunks[i].complete

\* C4 (refuted): whenever no call is in progress, last_hash is the
\* entry_hash of the last in-memory entry, or the genesis sentinel when the
\* chain is empty.
C4_LastHashCached ==
    Quiescent =>
        last_hash = IF entries = <<>> THEN GENESIS ELSE Last(entries).entry_hash

\* the durable write of t's record_action failed: the backing file is not the
\* file of the call's start with the entry's line added
WriteFailed(t) ==
    /\ Finished(t, "record_action")
    /\ ledger_file # AppendLine(pre[t].ledger_file, local[t].entry)

\* C5: a record_action whose durable write failed raises, and leaves the
\* in-memory sequence, last_hash and the index as they were when it began,
\* without the attempted entry.
C5_FailedWriteAtomic ==
    \A t \in Threads :
        WriteFailed(t) =>
            /\ ret[t].kind = "raise"
            /\ entries = pre[t].entries
            /\ last_hash = pre[t].last_hash
            /\ index_file = pre[t].index_file
            /\ \A i \in 1..Len(entries) : entries[i] # local[t].entry

C5_Witness ==
    \E t \in Threads :
        /\ WriteFailed(t) /\ ret[t].kind = "raise"
        /\ pre[t].entries # <<>> /\ entries = pre[t].entries
        /\ ledger_file = AppendTorn(pre[t].ledger_file, local[t].entry)

\* C6 (refuted): in every state, every entry of the in-memory sequence has
\* already been written to the backing file.
C6_VisibleOnlyAfterWrite ==
    \A i \in 1..Len(entries) :
        \E j \in CompleteWrites(ledger_file) : ledger_file.chunks[j].e = entries[i]

\* C7 (refuted): concurrent record_action calls are serialized: with no
\* deletion, once the calls are over no two entries share a previous_hash,
\* the chain-link invariant holds in memory and in the backing file, and a
\* call's entry (when the other call's differs) is in memory iff the call
\* succeeded.
C7_AppendsSerialized ==
    (Quiescent /\ deletion_audit_file = <<>>) =>
        /\ \A i, j \in 1..Len(entries) :
              i # j => entries[i].previous_hash # entries[j].previous_hash
        /\ ChainLinked(entries)
        /\ FileReadable(ledger_file) => ChainLinked(LinesFrom(ledger_file, 1))
        /\ \A t \in Threads :
              ( /\ Finished(t, "record_action")
                /\ \A u \in Threads \ {t} :
                      Finished(u, "record_action") => local[u].entry # local[t].entry )
              => ((ret[t].kind = "return")
                      <=> (\E i \in 1..Len(entries) : entries[i] = local[t].entry))

\* C8 (refuted): one record_action and one authorized deletion, both
\* completed, leave one of the two serial outcomes: memory empty and no
\* backing file, or exactly the recorded entry, chained to the genesis
\* sentinel, in memory and in the backing file.
C8_RecordDeleteExclusive ==
    \A t, u \in Threads :
        ( /\ calls = 2
          /\ Finished(t, "record_action") /\ ret[t].kind = "return"
          /\ Finished(u, "delete") /\ ret[u].kind = "return" ) =>
            \/ /\ entries = <<>> /\ last_hash = GENESIS
               /\ ~ledger_file.exists
            \/ /\ entries = <<local[t].entry>>
               /\ last_hash = local[t].entry.entry_hash
               /\ local[t].entry.previous_hash = GENESIS
               /\ ledger_file = AppendLine(AbsentFile, local[t].entry)

\* C9 (refuted): a get_stats that runs beside a record_action returns a
\* last_hash that is the entry_hash of the last entry it counted, and the
\* entries it saw include none that a failed write then removes.
C9_ReadersSeeSnapshot ==
    \A t \in Threads :
        Finished(t, "get_stats") =>
            /\ ret[t].value.total_entries > 0 =>
                  ret[t].value.last_hash =
                      pre[t].entries[ret[t].value.total_entries].entry_hash
            /\ \A u \in Threads :
                  (Finished(u, "record_action") /\ ret[u].kind = "raise") =>
                      \A i \in 1..Len(pre[t].entries) :
                          pre[t].entries[i] # local[u].entry

Deleted ==
    /\ ~ledger_file.exists /\ index_file.state = "absent"
    /\ entries = <<>> /\ last_hash = GENESIS

Aborted(t) ==
    /\ ledger_file = pre[t].ledger_file /\ index_file = pre[t].index_file
    /\ entries = pre[t].entries /\ last_hash = pre[t].last_hash

\* C10 (refuted): every deletion call ends Deleted or Aborted; none ends with
\* the backing file removed while the in-memory chain is non-empty or the
\* index file still exists.
C10_NoPartialDeletion ==
    \A t \in Threads : Finished(t, "delete") => (Deleted \/ Aborted(t))

\* t's deletion call was authorized and is over, and the deletion-audit trail
\* is as it was when the call began: the audit write failed
AuditWriteFailed(t) ==
    /\ Finished(t, "delete")
    /\ authorize_ledger_deletion(ledger_name, local[t].smart_id,
                                 local[t].supervisor_id)
    /\ deletion_audit_file = pre[t].deletion_audit_file

\* C11: a deletion whose audit write failed raises the audit error and leaves
\* the backing file, the index file, the in-memory entry count and last_hash
\* as they were, with no snapshot copy made.
C11_AuditFailureAborts ==
    \A t \in Threads :
        AuditWriteFailed(t) =>
            /\ ret[t] = Raised("Cannot delete ledger without audit trail")
            /\ ledger_file = pre[t].ledger_file
            /\ index_file = pre[t].index_file
            /\ Len(entries) = Len(pre[t].entries)
            /\ last_hash = pre[t].last_hash
            /\ final_backups = pre[t].final_backups

C11_Witness ==
    \E t \in Threads :
        /\ AuditWriteFailed(t) /\ ret[t].kind = "raise"
        /\ ledger_file.exists /\ Len(entries) = 1
        /\ index_file.state = "ok"

\* t's attempt record is the one new record of the authorization-attempt trail
AttemptLogged(t) ==
    /\ Len(auth_file) = Len(pre[t].auth_file) + 1
    /\ SubSeq(auth_file, 1, Len(pre[t].auth_file)) = pre[t].auth_file
    /\ Last(auth_file).smart_id = local[t].smart_id
    /\ Last(auth_file).supervisor_id = local[t].supervisor_id
    /\ Last(auth_file).reason = local[t].reason
    /\ Last(auth_file).ledger_name = ledger_name
    /\ Last(auth_file).action = "deletion_authorization_request"

\* C12 (refuted): a deletion that is not authorized raises the permission
\* error and leaves the in-memory chain, last_hash, the backing file, the
\* index file and the deletion-audit trail as they were, makes no snapshot,
\* and adds exactly one record to the authorization-attempt trail.
C12_UnauthorizedAborts ==
    \A t \in Threads :
        ( /\ Finished(t, "delete")
          /\ ~authorize_ledger_deletion(ledger_name, local[t].smart_id,
                                        local[t].supervisor_id) ) =>
            /\ ret[t] = Raised("PermissionError")
            /\ entries = pre[t].entries /\ last_hash = pre[t].last_hash
            /\ ledger_file = pre[t].ledger_file /\ index_file = pre[t].index_file
            /\ deletion_audit_file = pre[t].deletion_audit_file
            /\ final_backups = pre[t].final_backups
            /\ AttemptLogged(t)

\* C13 (refuted): no authorize_ledger_deletion call returns its decision
\* without its attempt record having been appended to the trail.
C13_AttemptAlwaysLogged ==
    \A t \in Threads : Finished(t, "authorize") => AttemptLogged(t)

Recognized(id, prefixes) ==
    id # NoneVal /\ id # "" /\ \E p \in prefixes : StartsWith(id, p)

\* C14: authorize_ledger_deletion returns true iff the requester is non-empty
\* and starts with STF-, ADM- or DEV-, and, when the ledger is one of
\* production, audit, compliance, vault, nodes, the supervisor is present and
\* starts with SUP- or ADM-.
C14_AuthorizationRule ==
    \A t \in Threads :
        Finished(t, "authorize") =>
            ( ret[t].value
              <=> /\ Recognized(local[t].smart_id, {"STF-", "ADM-", "DEV-"})
                  /\ ledger_name \in {"production", "audit", "compliance",
                                      "vault", "nodes"}
                       => Recognized(local[t].supervisor_id, {"SUP-", "ADM-"}) )

\* on the critical ledger the same requester is granted with a supervisor and
\* refused without one
C14_Witness ==
    /\ ledger_name = "nodes"
    /\ \E t, u \in Threads :
        /\ Finished(t, "authorize") /\ Finished(u, "authorize")
        /\ local[t].smart_id = "STF-001" /\ local[u].smart_id = "STF-001"
        /\ local[t].supervisor_id = "SUP-001" /\ local[u].supervisor_id = NoneVal
        /\ ret[t].value /\ ~ret[u].value

\* C15: authorize_ledger_deletion leaves the in-memory chain, last_hash, the
\* backing file, the index file and the deletion-audit trail unchanged, and
\* two calls with the same requester and supervisor on the same ledger return
\* the same decision, whatever attempts came before.
C15_AuthorizationPure ==
    \A t \in Threads :
        Finished(t, "authorize") =>
            /\ entries = pre[t].entries /\ last_hash = pre[t].last_hash
            /\ ledger_file = pre[t].ledger_file /\ index_file = pre[t].index_file
            /\ deletion_audit_file = pre[t].deletion_audit_file
            /\ final_backups = pre[t].final_backups
            /\ \A u \in Threads :
                  ( /\ Finished(u, "authorize")
                    /\ local[u].smart_id = local[t].smart_id
                    /\ local[u].supervisor_id = local[t].supervisor_id )
                  => ret[u].value = ret[t].value

\* a granted call that follows an attempt with the same credentials
C15_Witness ==
    \E t, u \in Threads :
        /\ t # u /\ Finished(t, "authorize") /\ Finished(u, "authorize")
        /\ local[u].smart_id = local[t].smart_id
        /\ local[u].supervisor_id = local[t].supervisor_id
        /\ pre[u].auth_file # <<>> /\ pre[u].entries # <<>>
        /\ ret[t].value /\ ret[u].value

\* the auditor's validate_chain call is over
Validated == Finished("t1", "validate_chain")

\* the report holds a violation of the kind at the 0-based index, tagged with
\* the entry's identifier
Reported(r, index, chain_break) ==
    \E k \in 1..Len(r.invalid_entries) :
        /\ r.invalid_entries[k].index = index
        /\ r.invalid_entries[k].chain_break = chain_break
        /\ r.invalid_entries[k].entry_id = entries[index + 1].entry_id

\* C16 (refuted): after one field of the stored entry at index i was edited,
\* validate_chain reports exactly one violation, a hash mismatch at index i.
C16_SingleFieldMutation ==
    (Validated /\ local["t2"].op = "tamper") =>
        LET r == ret["t1"].value
        IN /\ ~r.valid
           /\ Len(r.invalid_entries) = 1
           /\ Reported(r, local["t2"].index - 1, FALSE)

\* C17: after the stored previous_hash of the entry at index i was replaced
\* by a different value, validate_chain reports valid = false and a chain
\* break tagged with index i and that entry's entry_id.
C17_BrokenLinkReported ==
    (Validated /\ local["t2"].op = "tamper"
               /\ local["t2"].field = "previous_hash") =>
        /\ ~ret["t1"].value.valid
        /\ Reported(ret["t1"].value, local["t2"].index - 1, TRUE)

C17_Witness ==
    /\ Validated /\ local["t2"].op = "tamper"
    /\ local["t2"].field = "previous_hash" /\ local["t2"].index = 2
    /\ Len(entries) = 3 /\ entries[2].previous_hash = GENESIS
    /\ Reported(ret["t1"].value, 1, TRUE)

\* the predecessor validate_chain expects at position i (1-based)
ExpectedPredecessor(i) == IF i = 1 THEN GENESIS ELSE entries[i - 1].entry_hash

HashMismatch(i) ==
    sha256_hexdigest(hash_data(SmartLedgerEntry(entries[i], entries[i].timestamp),
                               ExpectedPredecessor(i)))
        # entries[i].entry_hash

ChainBreak(i) == entries[i].previous_hash # ExpectedPredecessor(i)

\* C18: validate_chain reports, for each index on its own, a hash mismatch
\* iff the hash recomputed from the entry's fields and the expected
\* predecessor differs from the stored entry_hash, and a chain break iff the
\* stored previous_hash differs from the expected predecessor, in append
\* order; valid iff nothing was reported; total_entries is the chain length;
\* an empty chain is valid.
C18_ValidateChainReport ==
    Validated =>
        LET r == ret["t1"].value
        IN /\ r.total_entries = Len(entries)
           /\ entries = <<>> => r.valid
           /\ entries # <<>> =>
                /\ r.valid <=> (r.invalid_entries = <<>>)
                /\ \A i \in 1..Len(entries) :
                      /\ HashMismatch(i) <=> Reported(r, i - 1, FALSE)
                      /\ ChainBreak(i) <=> Reported(r, i - 1, TRUE)
                /\ \A k \in 1..Len(r.invalid_entries) :
                      /\ r.invalid_entries[k].index \in 0..(Len(entries) - 1)
                      /\ k > 1 => r.invalid_entries[k - 1].index
                                     <= r.invalid_entries[k].index

\* an edited entry_hash in the middle: that entry fails the hash check only,
\* its successor fails both checks
C18_Witness ==
    /\ Validated /\ local["t2"].op = "tamper" /\ local["t2"].field = "entry_hash"
    /\ Len(entries) = 3 /\ local["t2"].index = 2
    /\ HashMismatch(2) /\ ~ChainBreak(2) /\ HashMismatch(3) /\ ChainBreak(3)
    /\ Len(ret["t1"].value.invalid_entries) = 3

\* C19 (refuted): after any one entry of a valid chain of n >= 1 entries was
\* removed from the stored sequence, validate_chain reports valid = false.
C19_RemovalDetected ==
    ( /\ Validated /\ local["t2"].op = "remove"
      /\ Len(pre["t2"].entries) >= 1
      /\ validate_chain(pre["t2"].entries).valid ) =>
        ~ret["t1"].value.valid

\* C20 (refuted): after every record_action call that returns an entry_id,
\* the index (total_entries, last_hash, counts by action_type, by actor and
\* by non-empty subject id) is the one recomputed from the chain.
C20_IndexReflectsChain ==
    \A t \in Threads :
        (Finished(t, "record_action") /\ ret[t].kind = "return") =>
            index_file = ReadableIndex(IndexOf(entries, last_hash))

\* the index kept entry by entry: one more in total, one more for the
\* entry's action_type and actor, and one more for its subject id unless
\* that is empty
CountOneMore(d, key) ==
    IF key \in DOMAIN d THEN [d EXCEPT ![key] = @ + 1] ELSE (key :> 1) @@ d

RECURSIVE IncrementalIndex(_, _)
IncrementalIndex(es, n) ==
    IF n = 0
    THEN [ total_entries |-> 0, entry_types |-> NoCounts, users |-> NoCounts,
           smart_ids |-> NoCounts ]
    ELSE LET ix == IncrementalIndex(es, n - 1)
         IN [ total_entries |-> ix.total_entries + 1,
              entry_types |-> CountOneMore(ix.entry_types, es[n].action_type),
              users |-> CountOneMore(ix.users, es[n].user_id),
              smart_ids |-> IF es[n].smart_id = "" THEN ix.smart_ids
                            ELSE CountOneMore(ix.smart_ids, es[n].smart_id) ]

\* C21: the index that record_action rebuilds from scratch over the chain is
\* the index obtained by the single-entry update applied once per entry in
\* append order from the empty index: same total, same counts by
\* action_type, by actor and by non-empty subject id.
C21_RebuildEqualsIncremental ==
    [][\A t \in Threads :
          (pc[t] = "ra_index" /\ pc'[t] = "done" /\ faults' = faults) =>
              LET ix == IncrementalIndex(entries', Len(entries'))
              IN /\ index_file'.state = "ok"
                 /\ index_file'.data.total_entries = ix.total_entries
                 /\ index_file'.data.entry_types = ix.entry_types
                 /\ index_file'.data.users = ix.users
                 /\ index_file'.data.smart_ids = ix.smart_ids]_vars

\* the index of a chain of two entries by one actor, one of them without a
\* subject id
C21_Witness ==
    /\ \E t \in Threads : Finished(t, "record_action") /\ ret[t].kind = "return"
    /\ Len(entries) = 2 /\ entries[1].smart_id = "" /\ entries[2].smart_id # ""
    /\ index_file.state = "ok" /\ index_file.data.total_entries = 2
    /\ index_file.data.users = [u \in {"admin"} |-> 2]
    /\ DOMAIN index_file.data.smart_ids = {entries[2].smart_id}

\* the positions of the chain whose entries satisfy every supplied predicate
Matching(q) ==
    { i \in 1..Len(entries) :
        /\ q.action_type \in {NoneVal, ""} \/ entries[i].action_type = q.action_type
        /\ q.user_id \in {NoneVal, ""} \/ entries[i].user_id = q.user_id
        /\ q.start_time = NoTime \/ entries[i].timestamp >= q.start_time
        /\ q.end_time = NoTime \/ entries[i].timestamp <= q.end_time }

\* C22: get_entries returns the entries of ranks offset+1 .. offset+limit
\* among those that satisfy all supplied predicates, newest first: each
\* returned entry matches, the page has the length of that rank range, the
\* k-th returned entry has the timestamp of rank offset+k, none is returned
\* twice, and the page is empty when nothing matches.
C22_GetEntriesPage ==
    \A t \in Threads :
        Finished(t, "get_entries") =>
            LET q == local[t].q
                r == ret[t].value
                m == Matching(q)
                n == Cardinality(m)
                room == IF n > q.offset THEN n - q.offset ELSE 0
            IN /\ Len(r) = IF room < q.limit THEN room ELSE q.limit
               /\ \A k \in 1..Len(r) :
                     /\ \E i \in m : entries[i] = r[k]
                     /\ Cardinality({i \in m : entries[i].timestamp > r[k].timestamp})
                           <= q.offset + k - 1
                     /\ Cardinality({i \in m : entries[i].timestamp >= r[k].timestamp})
                           >= q.offset + k
                     /\ \A j \in 1..Len(r) : j # k => r[j] # r[k]
                     /\ k > 1 => r[k - 1].timestamp >= r[k].timestamp
               /\ m = {} => r = <<>>

\* two conjunctive filters that leave out entries, and a page that leaves out
\* the newest match
C22_Witness ==
    \E t \in Threads :
        /\ Finished(t, "get_entries")
        /\ local[t].q.action_type = "system" /\ local[t].q.end_time = 0
        /\ local[t].q.offset = 1 /\ local[t].q.limit = 1
        /\ Len(entries) = 3 /\ Cardinality(Matching(local[t].q)) = 2
        /\ ret[t].value = <<entries[2]>>

\* C23: get_entries leaves the in-memory sequence, last_hash, the backing
\* file and the index file as they were, so that validate_chain reports the
\* same before and after.
C23_GetEntriesReadOnly ==
    \A t \in Threads :
        Finished(t, "get_entries") =>
            /\ entries = pre[t].entries /\ last_hash = pre[t].last_hash
            /\ ledger_file = pre[t].ledger_file /\ index_file = pre[t].index_file
            /\ validate_chain(entries) = validate_chain(pre[t].entries)

\* a query that returns the chain in the reverse of its append order
C23_Witness ==
    \E t \in Threads :
        /\ Finished(t, "get_entries") /\ Len(entries) = 3
        /\ entries[1].timestamp < entries[3].timestamp
        /\ Len(ret[t].value) = 3 /\ ret[t].value[1] = entries[3]
        /\ validate_chain(entries).valid

\* t's construction of the store is over, and it found a backing file with an
\* unreadable line
OpenedCorrupt(t) ==
    /\ Finished(t, "open")
    /\ pre[t].ledger_file.exists /\ ~FileReadable(pre[t].ledger_file)

\* C24: opening a store whose backing file has an unreadable line completes,
\* with an empty in-memory chain and last_hash = genesis, the original path
\* no longer holding the file, and the whole file kept under the quarantine
\* name of the current second.
C24_CorruptFileQuarantined ==
    \A t \in Threads :
        OpenedCorrupt(t) =>
            /\ ret[t].kind = "return"
            /\ entries = <<>> /\ last_hash = GENESIS
            /\ ~ledger_file.exists
            /\ now \in DOMAIN quarantine
            /\ quarantine[now] = pre[t].ledger_file

\* a file with a good line before the torn one
C24_Witness ==
    \E t \in Threads :
        /\ OpenedCorrupt(t)
        /\ Len(pre[t].ledger_file.chunks) = 2
        /\ ReadableLine(pre[t].ledger_file, 1)
        /\ pre[t].entries # <<>> /\ entries = <<>>
        /\ quarantine[now].chunks = pre[t].ledger_file.chunks

\* C25 (refuted): a corruption recovery leaves every file quarantined before
\* it preserved, and keeps its own file under a name of its own.
C25_QuarantineKeepsEvidence ==
    \A t \in Threads :
        OpenedCorrupt(t) =>
            /\ \A n \in DOMAIN pre[t].quarantine :
                  \E m \in DOMAIN quarantine : quarantine[m] = pre[t].quarantine[n]
            /\ Cardinality(DOMAIN quarantine)
                  = Cardinality(DOMAIN pre[t].quarantine) + 1

\* the call of t left the chain, last_hash and every file as they were
NothingChanged(t) ==
    /\ entries = pre[t].entries /\ last_hash = pre[t].last_hash
    /\ ledger_file = pre[t].ledger_file /\ index_file = pre[t].index_file
    /\ auth_file = pre[t].auth_file
    /\ deletion_audit_file = pre[t].deletion_audit_file
    /\ final_backups = pre[t].final_backups
    /\ quarantine = pre[t].quarantine

\* C26: create_transfer_package on a chain with no entries returns (does not
\* raise) an error result that names the ledger, and changes nothing.
C26_EmptyTransferIsError ==
    \A t \in Threads :
        (Finished(t, "create_transfer_package") /\ pre[t].entries = <<>>) =>
            /\ ret[t].kind = "return"
            /\ DOMAIN ret[t].value = {"error", "ledger_name"}
            /\ ret[t].value.error = "No entries to transfer"
            /\ ret[t].value.ledger_name = ledger_name
            /\ NothingChanged(t)

C26_Witness ==
    \E t \in Threads :
        /\ Finished(t, "create_transfer_package")
        /\ pre[t].entries = <<>> /\ ~ledger_file.exists
        /\ ret[t].value.ledger_name = "nodes"

\* the smaller of two numbers
Smaller(a, b) == IF a < b THEN a ELSE b

\* C27: for a chain of n >= 1 entries create_transfer_package returns
\* total_entries = n, final_hash = last_hash = the entry_hash of the last
\* bootstrap entry, the last min(5, n) entries in append order as
\* bootstrap_entries, and the validate_chain report; it changes nothing.
C27_TransferPackage ==
    \A t \in Threads :
        (Finished(t, "create_transfer_package") /\ pre[t].entries # <<>>) =>
            LET package == ret[t].value
                n == Len(entries)
                k == Smaller(5, n)
            IN /\ ret[t].kind = "return"
               /\ package.total_entries = n
               /\ package.final_hash = last_hash
               /\ Len(package.bootstrap_entries) = k
               /\ \A j \in 1..k : package.bootstrap_entries[j] = entries[n - k + j]
               /\ package.final_hash = package.bootstrap_entries[k].entry_hash
               /\ package.hash_validation = validate_chain(entries)
               /\ NothingChanged(t)

\* a chain longer than the bootstrap tail
C27_Witness ==
    \E t \in Threads :
        /\ Finished(t, "create_transfer_package")
        /\ Len(entries) = 6
        /\ Len(ret[t].value.bootstrap_entries) = 5
        /\ ret[t].value.bootstrap_entries[1] = entries[2]
        /\ ret[t].value.hash_validation.valid
\* caller t holds a store object it constructed itself
Constructed(t) == "instance" \in DOMAIN local[t]

\* C28: all callers of get_ledger for one name receive the same store, the
\* backing file is read into one store object only, and no two store objects
\* for the file are in callers' hands.
C28_SingletonStore ==
    /\ \A t, u \in Threads :
         Finished(t, "get_ledger") /\ Finished(u, "get_ledger")
             => ret[t].value = ret[u].value
    /\ \A t, u \in Threads : Constructed(t) /\ Constructed(u) => t = u

\* names of other chains in the same data directory, among them names made of
\* the parts of the file names the store uses
OtherNames ==
    (LedgerNames \cup {"smart", "deletion", "deletion_audit", "main_ledger",
                       "nodes_index", "FINAL_BACKUP_main", "FINAL_BACKUP_nodes_0",
                       "smart_ledger_backup_0", ""}) \ {ledger_name}

\* the files of the chain named b: backing file, index file and
\* authorization-attempt trail
FilesOf(b) == {ledger_path(b), index_path(b), auth_path(b)}

C30_TimestampsNonDecreasing ==
    \A i \in 1..(Len(entries) - 1) : entries[i].timestamp <= entries[i + 1].timestamp

\* the nine hashed fields of an entry, the metadata as the mapping it is
HashedFields(e) ==
    [ timestamp |-> e.timestamp, action_type |-> e.action_type,
      action |-> e.action, target |-> e.target, details |-> e.details,
      user_id |-> e.user_id, smart_id |-> e.smart_id,
      metadata |-> {e.metadata[i] : i \in 1..Len(e.metadata)},
      previous_hash |-> e.previous_hash ]

\* C31: two entries get the same entry_hash exactly when their nine hashed
\* fields are the same.
C31_HashOfNineFields ==
    \A t, u \in Threads :
        Finished(t, "calculate_hash") /\ Finished(u, "calculate_hash")
            => ((HashedFields(local[t].entry) = HashedFields(local[u].entry))
                    <=> (local[t].entry.entry_hash = local[u].entry.entry_hash))

\* C32: a deletion call whose audit record was written and whose snapshot
\* copy was not made (the copy failed, or there was no backing file to copy)
\* ends in Deleted.
C32_SnapshotBestEffort ==
    \A t \in Threads :
        Finished(t, "delete") /\ AuditWritten(t)
            /\ final_backups = pre[t].final_backups
        => ret[t].kind = "return" /\ Deleted

\* a is the beginning of b
IsPrefix(a, b) == Len(a) <= Len(b) /\ SubSeq(b, 1, Len(a)) = a

\* the operations of the store that the append-only rule is about
StoreOperations ==
    { "record_action", "get_entries", "get_stats", "validate_chain",
      "authorize", "create_transfer_package", "delete" }

\* C33: when a call of record_action, get_entries, get_stats, validate_chain,
\* authorize_ledger_deletion, create_transfer_package or a deletion that
\* raised has ended, the in-memory sequence of the call's start is the
\* beginning of the sequence now; a deletion that returned leaves it empty.
C33_AppendOnly ==
    \A t \in Threads :
        (pc[t] = "done" /\ local[t].op \in StoreOperations) =>
            IF local[t].op = "delete" /\ ret[t].kind = "return"
            THEN entries = <<>>
            ELSE IsPrefix(pre[t].entries, entries)

C33_Witness ==
    \E t \in Threads :
        /\ Finished(t, "record_action") /\ ret[t].kind = "return"
        /\ pre[t].entries # <<>>
        /\ entries = Append(pre[t].entries, local[t].entry)
        /\ calls = MaxCalls

\* C34: whenever no call is in progress, every in-memory entry has exactly
\* the fields and values of the record written at the same position of the
\* backing file.
C34_EntriesAsWritten ==
    (Quiescent /\ \A j \in 1..Len(ledger_file.chunks) : ledger_file.chunks[j].complete) =>
        \A i \in 1..Len(entries) :
            i <= Len(ledger_file.chunks) =>
                entries[i] = json_roundtrip(ledger_file.chunks[i].e)

\* C35: get_stats of a store opened on a readable backing file returns the
\* total, the first and last entry times, last_hash and the counts by type,
\* actor and subject recomputed from the loaded entries, whatever index file
\* was found.
C35_StatsAfterRestart ==
    \A t \in Threads :
        (Finished(t, "get_stats") /\ entries # <<>>) =>
            LET stats == ret[t].value
                ix == IndexOf(entries, last_hash)
            IN /\ stats.total_entries = Len(entries)
               /\ stats.first_entry = isoformat(entries[1].timestamp)
               /\ stats.last_entry = isoformat(Last(entries).timestamp)
               /\ stats.last_hash = Last(entries).entry_hash
               /\ {"action_types", "users", "smart_ids"} \subseteq DOMAIN stats
               /\ stats.action_types = ix.entry_types
               /\ stats.users = ix.users
               /\ stats.smart_ids = ix.smart_ids

\* C36: the store constructed again on the backing file of a store that only
\* recorded actions holds the entries, in order, and the last_hash that the
\* store held, and its chain validates.
C36_RestartRoundTrip ==
    \A t \in Threads :
        Finished(t, "open") =>
            /\ entries = pre[t].entries
            /\ last_hash = pre[t].last_hash
            /\ validate_chain(entries).valid

\* C37: a deletion through the registry that returns leaves the store Deleted
\* and the name unregistered; the store constructed for the name afterwards is
\* another object with no entries and last_hash = genesis, and the first
\* record_action on it gives a one-entry chain whose entry is linked to the
\* genesis sentinel and which validates; a deletion that raises leaves the
\* same store registered with its entries and last_hash.
C37_DeletedThenFresh ==
    /\ [](\A t \in Threads :
            /\ (Finished(t, "delete") /\ ret[t].kind = "return") =>
                  Deleted /\ ledger_name \notin DOMAIN ledger_instances
            /\ (Finished(t, "delete") /\ ret[t].kind = "raise") =>
                  /\ ledger_name \in DOMAIN ledger_instances
                  /\ ledger_name \in DOMAIN pre[t].ledger_instances =>
                        ledger_instances = pre[t].ledger_instances
                  /\ entries = pre[t].entries /\ last_hash = pre[t].last_hash
            /\ ( /\ Finished(t, "record_action") /\ ret[t].kind = "return"
                 /\ ledger_name \notin DOMAIN pre[t].ledger_instances ) =>
                  /\ entries = <<local[t].entry>>
                  /\ entries[1].previous_hash = GENESIS
                  /\ last_hash = entries[1].entry_hash
                  /\ validate_chain(entries).valid)
    /\ [][\A t \in Threads :
            pc[t] \in {"ad_construct", "gr_construct"} /\ pc'[t] # pc[t] =>
                /\ entries' = <<>> /\ last_hash' = GENESIS
                /\ ledger_instances'[ledger_name] # FirstStore]_vars

C37_Witness ==
    \E t \in Threads :
        /\ Finished(t, "record_action") /\ ret[t].kind = "return"
        /\ ledger_name \notin DOMAIN pre[t].ledger_instances
        /\ final_backups # NoFiles /\ deletion_audit_file # <<>>
        /\ ledger_instances[ledger_name] # FirstStore
        /\ entries = <<local[t].entry>> /\ ledger_file.exists

\* C38: the record a deletion call appended to the deletion-audit trail holds
\* the last min(10, n) entries of the chain of n entries the call found, in
\* append order, the validate_chain report of that chain, total_entries = n
\* in its stats, and the authorizer, supervisor, reason and ledger name of the
\* call.
C38_AuditRecordDescribesChain ==
    \A t \in Threads :
        (Finished(t, "delete") /\ AuditWritten(t)) =>
            LET record == Last(deletion_audit_file)
                chain == pre[t].entries
                n == Len(chain)
                k == IF n < TailLen THEN n ELSE TailLen
            IN /\ record.final_entries = SubSeq(chain, n - k + 1, n)
               /\ record.hash_chain_validation = validate_chain(chain)
               /\ record.ledger_stats.total_entries = n
               /\ record.authorized_by = local[t].smart_id
               /\ record.supervisor_by = local[t].supervisor_id
               /\ record.reason = local[t].reason
               /\ record.ledger_name = ledger_name

C38_Witness ==
    \E t \in Threads :
        /\ Finished(t, "delete") /\ AuditWritten(t) /\ ret[t].kind = "return"
        /\ Len(pre[t].entries) = TailLen + 1 /\ entries = <<>>
        /\ Len(Last(deletion_audit_file).final_entries) = TailLen
        /\ Last(deletion_audit_file).final_entries[1] = pre[t].entries[2]
        /\ Last(deletion_audit_file).hash_chain_validation.valid

\* C39: no step removes or rewrites a record of the authorization-attempt
\* trail or of the deletion-audit trail, so neither trail gets shorter, and a
\* deletion call that returned has added exactly one record, its own, to the
\* deletion-audit trail.
C39_TrailsPermanent ==
    /\ [][ /\ IsPrefix(auth_file, auth_file')
           /\ IsPrefix(deletion_audit_file, deletion_audit_file') ]_vars
    /\ [](\A t \in Threads :
            (Finished(t, "delete") /\ ret[t].kind = "return") =>
                /\ Deleted
                /\ deletion_audit_file =
                      Append(pre[t].deletion_audit_file, local[t].deletion_record))

\* a deletion that followed a corruption recovery
C39_Witness ==
    \E t \in Threads :
        /\ Finished(t, "delete") /\ ret[t].kind = "return" /\ Deleted
        /\ quarantine # NoFiles
        /\ Len(deletion_audit_file) = 2
        /\ deletion_audit_file[1] = EarlierDeletion(ledger_name)
        /\ Len(auth_file) = 2 /\ auth_file[1] = EarlierAttempt(ledger_name)

====
